---- MODULE Spec2Model ----
(***************************************************************************)
(* A model of the memcached binary protocol front end of kv_engine: one   *)
(* client connection served by one front-end worker thread, the engine    *)
(* that completes blocked commands from its own threads, and the          *)
(* privilege check that runs before a command is executed.                *)
(***************************************************************************)
EXTENDS Integers, Sequences, FiniteSets, TLC

(* ----- bounds of the model ----- *)
MaxReq == 2
MaxCloseReq == 1
TickSeconds == 15
MaxAuth == 1
MaxPush == 1
MaxOther == 1
MaxNotify == 2
MaxBudget == 2
ReqsPerEventDefault == 1
MaxFrameInfos == 2
MaxSamples == 4
MaxSeqno == 5
MaxPaths == 3
MaxSendQueue == 3
MaxPacketSize == 26

(* ----- values of the program ----- *)
Opaques == {170, 187}
StuckLimitReady == 29
StuckLimitOther == 1
max_retries == 100
HeaderSize == 24

VARIABLES
    state,        \* StateMachine::currentState
    writeAndGo,   \* Connection::write_and_go
    running,      \* the worker is inside runStateMachinery's loop
    pipe,         \* requests sent by the client and not yet consumed
    nsent,        \* number of request headers the client has sent
    bodySent,     \* the body of the last request has been sent as well
    sockHalf,     \* header/body parts waiting in the socket
    rbufHalf,     \* header/body parts in the connection's read buffer
    hdr,          \* McbpConnection::binary_header
    cookie,       \* the connection's Cookie
    readEnabled,  \* the read event is enabled
    engOwed,      \* notify_io_complete calls the engine still has to make
    pending_io,   \* FrontEndThread::pending_io entry of the connection
    notifyPipe,   \* a byte is waiting in the worker's notification pipe
    msglist,      \* response frames built and not yet transmitted
    outbuf,       \* number of frames in the socket's send queue
    refcount,     \* Connection::refcount
    sendQueueInfo,\* Connection::sendQueueInfo (age: time since "last")
    notification, \* the connection is on the worker's notification list
    authState,    \* what the external auth manager knows of the connection
    features,     \* what the connection negotiated
    respLog,      \* history: ids of the requests answered, in queue order
    startedIds,   \* history: ids of the requests handed to cookie.execute
    doneIds,      \* history: ids of the requests whose execution completed
    delivered,    \* history: completions delivered in this blocked episode
    lastExec,     \* history: what cookie.execute did for this command
    ppc,          \* where the privilege checks of a request stand
    retries,      \* checkPrivilege's local count of rebuilds
    ctxStale,     \* the privilege context is older than the RBAC database
    xattrRead,    \* validate_vattr_privilege's local of that name
    privDebug,    \* settings.isPrivilegeDebug()
    rebuilds,     \* history: rebuilds for this request, up to max_retries+1
    lastCall,     \* history: how the last call of checkPrivilege ended
    outcome,      \* history: what became of the request
    bucketIndex,  \* the bucket the connection is in, 0 for no bucket
    authenticated,    \* Connection::authenticated
    privilegeContext, \* where the context comes from, what it grants
    subdoc,       \* a subdocument command: subdoc_executor's locals, context
    server_events,\* Connection::server_events, the oldest first
    evDone,       \* history: the events consumed, by their number
    evLast,       \* history: the event executed last and what it returned
    mgr,          \* the manager thread: where it is, its mutex, its locals
    incomingRequests,  \* ExternalAuthManagerThread::incomingRequests
    incommingResponse, \* ExternalAuthManagerThread::incommingResponse
    requestMap,   \* ExternalAuthManagerThread::requestMap
    authLog,      \* history: requests made, opaques given, answers delivered
    thr,          \* a worker thread: its pipe, its lists, who is to notify it
    bucketReady,  \* getBucket().state == Bucket::State::Ready
    numEvents,    \* Connection::numEvents
    entryReqs,    \* history: requests executed since runEventLoop began
    max_reqs_per_event, \* Connection::max_reqs_per_event
    yielding,     \* maybeYield since runEventLoop: calls, result, trigger
    frame         \* a frame that is received, decoded or built

vars == <<state, writeAndGo, running, pipe, nsent, bodySent, sockHalf,
          rbufHalf, hdr, cookie, readEnabled, engOwed, pending_io,
          notifyPipe, msglist, outbuf, refcount, sendQueueInfo,
          notification, authState, features, respLog, startedIds,
          doneIds, delivered, lastExec, ppc, retries, ctxStale, xattrRead,
          privDebug, rebuilds, lastCall, outcome, bucketIndex,
          authenticated, privilegeContext, subdoc, server_events, evDone,
          evLast, mgr, incomingRequests, incommingResponse, requestMap,
          authLog, thr, bucketReady, numEvents, entryReqs,
          max_reqs_per_event, yielding, frame>>

(* What the parts of the daemon beside the connection's state machine and  *)
(* its privilege checks work on.                                           *)
evVars == <<server_events, evDone, evLast>>
mgrVars == <<mgr, incomingRequests, incommingResponse, requestMap, authLog>>
yieldSide == <<max_reqs_per_event>>
sideVars == <<thr, bucketReady, yieldSide, frame>>
notFrame == <<subdoc, evVars, mgrVars, thr, bucketReady, yieldSide>>
auxVars == <<subdoc, evVars, mgrVars, sideVars>>
ctxVars == <<bucketIndex, authenticated, privilegeContext>>
privCore == <<ppc, retries, ctxStale, xattrRead, privDebug, rebuilds,
              lastCall, outcome, ctxVars>>
privVars == <<privCore, auxVars>>
yieldVars == <<numEvents, entryReqs, yielding>>
connVars == <<state, writeAndGo, running, pipe, nsent, bodySent, sockHalf,
              rbufHalf, hdr, cookie, readEnabled, engOwed, pending_io,
              notifyPipe, msglist, outbuf, refcount, sendQueueInfo,
              notification, authState, features, respLog, startedIds,
              doneIds, delivered, lastExec, yieldVars>>

connRest == <<writeAndGo, running, pipe, nsent, bodySent, sockHalf,
              rbufHalf, hdr, cookie, readEnabled, engOwed, pending_io,
              notifyPipe, msglist, outbuf, refcount, sendQueueInfo,
              notification, authState, features, respLog, startedIds,
              doneIds, delivered, lastExec, yieldVars>>

histVars == <<respLog, startedIds, doneIds, delivered, lastExec>>
sentVars == <<nsent, bodySent, features>>
connRest1 == <<writeAndGo, running, pipe, sockHalf, rbufHalf, hdr, cookie,
               readEnabled, engOwed, pending_io, notifyPipe, msglist, outbuf,
               refcount, sendQueueInfo, notification, sentVars, respLog,
               startedIds, doneIds, delivered, lastExec>>
connRest0 == <<connRest1, yieldVars>>

NoHdr == [opaque |-> 0]
NoExec == [priv |-> "none", executed |-> FALSE, code |-> "none"]
NoCall == [answer |-> "none", result |-> "none", exhausted |-> FALSE]
NoOutcome == [handed |-> FALSE, final |-> "none"]

(* The opcodes that may be reordered: "get" stands for the opcodes for     *)
(* which the function returns true, "stat" for the others.                 *)
isReorderSupported(kind) == kind = "get"

(* StateMachine::setCurrentState: a DCP connection never waits for the     *)
(* network alone, it goes to ship_log instead.                             *)
setCurrentState(task) ==
    IF features.mode = "dcp" /\ task = "waiting" THEN "ship_log" ELSE task

isIdleState(st) ==
    st \in {"read_packet_header", "read_packet_body", "waiting", "new_cmd",
            "ship_log", "send_data", "pending_close", "drain_send_buffer",
            "ssl_init"}

(* Connection::remapErrorCode for a connection with the given features.    *)
RemapWhitelist ==
    {"Success", "KeyEnoent", "KeyEexists", "Enomem", "NotStored", "Einval",
     "Enotsup", "Ewouldblock", "E2big", "Disconnect", "NotMyVbucket",
     "Tmpfail", "Erange", "Rollback", "Ebusy", "DeltaBadval",
     "PredicateFailed", "Failed"}
(* The codes of ENGINE_ERROR_CODE that remapErrorCode switches on. *)
EngineCodes ==
    RemapWhitelist \cup
    {"Locked", "LockedTmpfail", "UnknownCollection",
     "CollectionsManifestIsAhead", "Eaccess", "NoBucket", "AuthStale",
     "DurabilityInvalidLevel", "DurabilityImpossible", "SyncWriteInProgress",
     "SyncWriteRecommitInProgress", "SyncWriteAmbiguous",
     "DcpStreamidInvalid"}
(* remapErrorCode after a variant that remaps nothing. *)
remapErrorCode_asis(xerror, collections, code) == code
remapErrorCode(xerror, collections, code) ==
    IF xerror THEN code
    ELSE IF code \in RemapWhitelist THEN code
    ELSE IF code = "Locked" THEN "KeyEexists"
    ELSE IF code = "LockedTmpfail" THEN "Tmpfail"
    ELSE IF code \in {"UnknownCollection", "CollectionsManifestIsAhead"}
         THEN (IF collections THEN code ELSE "Einval")
    ELSE IF code \in {"SyncWriteInProgress", "SyncWriteRecommitInProgress"}
         THEN "Tmpfail"
    ELSE "Disconnect"

Remap(code) == remapErrorCode(features.xerror, features.collections, code)

(* Connection::havePendingData and Connection::getSendQueueSize *)
getSendQueueSize == outbuf
havePendingData_whatever == getSendQueueSize # 0
havePendingData ==
    IF sendQueueInfo.term THEN FALSE ELSE getSendQueueSize # 0

(* The packet the cookie works on is the first one of the read buffer, and *)
(* consuming it leaves the buffer with the packets that came after it.     *)
(* The variants before them are faults used to see that the properties     *)
(* below notice them: working on the newest packet, consuming nothing.     *)
getPacket_newest(p) == p[Len(p)]
getPacket(p) == Head(p)
consume_nothing(p) == p
consume(p) == Tail(p)

(* mcbp_add_header: the response header repeats the opcode and the opaque  *)
(* of the request header kept in the connection.  id and reqOpaque are     *)
(* history: the request that is being answered, the first packet of the    *)
(* read buffer, and the opaque its client gave it.                         *)
mcbp_add_header(status) ==
    [id |-> getPacket(pipe).id, opaque |-> hdr.opaque, status |-> status,
     reqOpaque |-> getPacket(pipe).opaque]

(* No call of maybeYield since runEventLoop set numEvents to budget, and   *)
(* no callback triggered.  calls, ret and budget are history.              *)
NoYield(budget) ==
    [calls |-> 0, ret |-> FALSE, budget |-> budget, trigger |-> FALSE]

(* Connection's constructor and the constructor of its one Cookie. *)
InitCookie ==
    [ewouldblock |-> FALSE, aiostat |-> "Success", refcount |-> 0,
     packet |-> FALSE]
InitialRefcount == 1

InitConnection ==
    /\ state = "new_cmd"
    /\ writeAndGo = "new_cmd"
    /\ running = FALSE
    /\ pipe = <<>>
    /\ nsent = 0
    /\ bodySent = TRUE
    /\ sockHalf = 0
    /\ rbufHalf = 0
    /\ hdr = NoHdr
    /\ cookie = InitCookie
    /\ readEnabled = TRUE
    /\ engOwed = 0
    /\ pending_io = <<>>
    /\ notifyPipe = FALSE
    /\ msglist = <<>>
    /\ outbuf = 0
    /\ refcount = InitialRefcount
    /\ sendQueueInfo = [size |-> 0, age |-> 0, term |-> FALSE]
    /\ notification = FALSE
    /\ authState = "none"
    /\ respLog = <<>>
    /\ startedIds = {}
    /\ doneIds = {}
    /\ delivered = 0
    /\ lastExec = NoExec
    /\ numEvents = 0
    /\ entryReqs = 0
    /\ yielding = NoYield(0)

(* A privilege context: whether it was made from the RBAC database or is   *)
(* the empty profile, and whether it grants every bucket privilege.        *)
EmptyContext == [from |-> "empty", all |-> FALSE]
(* cb::rbac::createContext: what the database holds for the user in the    *)
(* bucket, or an exception.                                                *)
createContext ==
    [from : {"rbac"}, all : BOOLEAN]
        \cup {[from |-> "exception", all |-> FALSE]}
Created == {c \in createContext : c.from = "rbac"}
(* PrivilegeContext::setBucketPrivileges *)
setBucketPrivileges(ctx) == [ctx EXCEPT !.all = TRUE]

(* Connection::setBucketIndex: the context the connection gets when it is  *)
(* put in bucket idx and createContext answers made.  Bucket 1 stands for  *)
(* the default bucket when the client is not authenticated.                *)
DefaultBucket == 1
Buckets == {0, DefaultBucket}
setBucketIndex(idx, auth, made) ==
    LET created == IF made.from = "exception" THEN EmptyContext ELSE made
        ctx == IF auth \/ idx = DefaultBucket THEN created ELSE EmptyContext
    IN IF idx = 0 THEN setBucketPrivileges(ctx) ELSE ctx

(* Connection::setAuthenticated *)
setAuthenticated(auth, made) == IF auth THEN made ELSE EmptyContext

(* The connection was put in the no-bucket when it was accepted. *)
InitContext ==
    /\ bucketIndex = 0
    /\ authenticated = FALSE
    /\ privilegeContext = setBucketIndex(0, FALSE, EmptyContext)

(* No request is being checked and the privilege context is current. *)
InitPrivilege ==
    /\ InitContext
    /\ ppc = "idle"
    /\ retries = 0
    /\ ctxStale = FALSE
    /\ xattrRead = FALSE
    /\ rebuilds = 0
    /\ lastCall = NoCall
    /\ outcome = NoOutcome

(* No subdocument command has been received. *)
NoSubdoc ==
    [phase |-> "idle", auto_retry |-> FALSE, attempts |-> 0, stores |-> 0,
     fetchedItem |-> FALSE, aiostat |-> "Success", response |-> "none"]

(* The manager thread waits, nothing is queued, and no number has been    *)
(* given to a request.                                                     *)
InitManager ==
    /\ mgr = [pc |-> "wait", locked |-> FALSE, next |-> 0, events |-> <<>>,
              responses |-> <<>>, task |-> 0]
    /\ incomingRequests = <<>>
    /\ incommingResponse = <<>>
    /\ requestMap = {}
    /\ authLog = [tasks |-> 0, pushes |-> 0, others |-> 0, issued |-> {},
                  delivered |-> <<>>]

NoEvent == [seq |-> 0, ok |-> FALSE]

(* A worker in its event loop: nothing in its pipe, its queue of new       *)
(* connections or its pending-io list, and no thread about to notify it.   *)
InitThread ==
    [pipe |-> 0, new_conn_queue |-> <<>>, pending_io |-> <<>>, step |-> 0,
     conns |-> {}, notify |-> {}, dispatched |-> 0, notified |-> 0,
     quiet |-> {}, ranQuiet |-> FALSE]

NoFrame == [kind |-> "none"]

InitServer ==
    /\ thr = InitThread
    /\ max_reqs_per_event = ReqsPerEventDefault
    /\ subdoc = NoSubdoc
    /\ server_events = <<>>
    /\ evDone = <<>>
    /\ evLast = NoEvent
    /\ InitManager

InitDaemon ==
    /\ InitServer
    /\ frame = NoFrame

(* The connection's bucket is ready to serve. *)
InitAux ==
    /\ InitDaemon
    /\ bucketReady = TRUE

Init ==
    /\ InitConnection
    /\ InitPrivilege
    /\ InitAux
    /\ privDebug = FALSE
    /\ features \in [xerror : BOOLEAN, collections : {FALSE},
                     mode : {"ordered", "unordered", "dcp"}]

(* ----- the client ----- *)

(* The client writes the header of its next request.  A command may be     *)
(* reordered when the connection negotiated unordered execution, the       *)
(* request carries the Reorder frame info and the opcode supports it.      *)
RequestShapes ==
    {[kind |-> "get", reorder |-> TRUE], [kind |-> "stat", reorder |-> TRUE],
     [kind |-> "invalid", reorder |-> FALSE]}
mayBeReordered(req) ==
    features.mode = "unordered" /\ req.reorder /\ isReorderSupported(req.kind)

ClientHeader(max, opaques, shapes) ==
    /\ nsent < max
    /\ bodySent
    /\ state # "destroyed"
    /\ \E o \in opaques, sh \in shapes :
         LET req == [id |-> nsent + 1, opaque |-> o, kind |-> sh.kind,
                     reorder |-> sh.reorder]
         IN pipe' = Append(pipe, req)
    /\ nsent' = nsent + 1
    /\ bodySent' = FALSE
    /\ sockHalf' = sockHalf + 1
    /\ UNCHANGED <<privVars, yieldVars, state, writeAndGo, running, rbufHalf, hdr,
                   cookie, readEnabled, engOwed, pending_io, notifyPipe,
                   msglist, outbuf, refcount, sendQueueInfo, notification,
                   authState, features, histVars>>

ClientSendHeader == ClientHeader(MaxReq, Opaques, RequestShapes)

(* A client that sends fewer and plainer requests, for the runs that look  *)
(* at how a connection is closed rather than at what it answers.           *)
PlainShapes == {sh \in RequestShapes : sh.kind # "stat"}
ClientSendPlain == ClientHeader(MaxCloseReq, {170}, PlainShapes)

(* A client that sends what conn_validate tells apart. *)
ValidateShapes ==
    {[kind |-> k, reorder |-> FALSE] :
        k \in {"get", "invalid", "durability_level", "unknown_opcode",
               "server_request"}}
ClientSendAny == ClientHeader(MaxReq, {170}, ValidateShapes)

(* The peer of a DCP connection sends the messages of a stream. *)
DcpShapes == {[kind |-> "dcp_system_event", reorder |-> FALSE]}
ClientSendDcp == ClientHeader(MaxReq, {170}, DcpShapes)

ClientSendBody ==
    /\ ~bodySent
    /\ state # "destroyed"
    /\ bodySent' = TRUE
    /\ sockHalf' = sockHalf + 1
    /\ UNCHANGED <<privVars, yieldVars, state, writeAndGo, running, pipe, nsent,
                   rbufHalf, hdr, cookie, readEnabled, engOwed, pending_io,
                   notifyPipe, msglist, outbuf, refcount, sendQueueInfo,
                   notification, authState, features, histVars>>

(* ----- the engine and the external auth manager ----- *)

(* notify_io_complete, called by an engine thread for a command it made    *)
(* wait: under the worker's lock it records the status, puts the           *)
(* connection on the pending-io list unless it is there already, and       *)
(* writes to the notification pipe when the list was empty.                *)
CompletionStatus == {"Success", "Tmpfail"}
(* setAiostat; the variant before it also takes the cookie out of its      *)
(* wait, which is for the worker to do.                                    *)
setAiostat_unblocking(c, status) ==
    [c EXCEPT !.aiostat = status, !.ewouldblock = FALSE]
setAiostat(c, status) == [c EXCEPT !.aiostat = status]
notify_io_complete ==
    /\ engOwed > 0
    /\ ~running
    /\ state # "destroyed"
    /\ \E status \in CompletionStatus :
         /\ cookie' = setAiostat(cookie, status)
         /\ pending_io' = IF pending_io = <<>> THEN <<status>> ELSE pending_io
    /\ notifyPipe' = (notifyPipe \/ pending_io = <<>>)
    /\ engOwed' = engOwed - 1
    /\ UNCHANGED <<privVars, yieldVars, state, writeAndGo, running, pipe, sockHalf,
                   rbufHalf, hdr, readEnabled, msglist, outbuf, refcount,
                   sendQueueInfo, notification, authState, sentVars,
                   histVars>>

(* The DCP producer of the engine has more to send to an idle DCP          *)
(* connection and wakes it the same way.                                   *)
dcp_notify_io_complete ==
    /\ features.mode = "dcp"
    /\ state = "ship_log"
    /\ ~running
    /\ pending_io = <<>>
    /\ cookie' = setAiostat(cookie, "Success")
    /\ pending_io' = <<"Success">>
    /\ notifyPipe' = TRUE
    /\ UNCHANGED <<privVars, yieldVars, state, writeAndGo, running, pipe, sockHalf,
                   rbufHalf, hdr, readEnabled, engOwed, msglist, outbuf,
                   refcount, sendQueueInfo, notification, authState,
                   sentVars, histVars>>

(* ExternalAuthManagerThread::add: the connection registers as an          *)
(* authentication provider and the manager takes a reference to it.        *)
ExternalAuthManagerThread_add ==
    /\ authState = "none"
    /\ ~mgr.locked
    /\ ~running
    /\ state = "new_cmd"
    /\ nsent = 0
    /\ authState' = "registered"
    /\ refcount' = refcount + 1
    /\ UNCHANGED <<privVars, yieldVars, state, writeAndGo, running, pipe, sockHalf,
                   rbufHalf, hdr, cookie, readEnabled, engOwed, pending_io,
                   notifyPipe, msglist, outbuf, sendQueueInfo, notification,
                   sentVars, histVars>>

(* Connection::signalIfIdle; the variant before it signals a connection    *)
(* whatever it is doing.                                                   *)
signalIfIdle_always == TRUE
signalIfIdle == ~cookie.ewouldblock /\ isIdleState(state)

(* ExternalAuthManagerThread::purgePendingDeadConnections: under the       *)
(* worker's lock the manager drops its reference and signals the           *)
(* connection if it is idle.                                               *)
purgePendingDeadConnections ==
    /\ authState = "pendingRemove"
    /\ ~running
    /\ authState' = "removed"
    /\ refcount' = refcount - 1
    /\ notification' = (notification \/ signalIfIdle)
    /\ notifyPipe' = (notifyPipe \/ signalIfIdle)
    /\ UNCHANGED <<privVars, yieldVars, state, writeAndGo, running, pipe, sockHalf,
                   rbufHalf, hdr, cookie, readEnabled, engOwed, pending_io,
                   msglist, outbuf, sendQueueInfo, sentVars, histVars>>

(* Time passes while the send queue holds data. *)
Tick ==
    /\ state # "destroyed"
    /\ sendQueueInfo.size # 0
    /\ sendQueueInfo.age <= StuckLimitReady
    /\ sendQueueInfo' =
           [sendQueueInfo EXCEPT !.age = sendQueueInfo.age + TickSeconds]
    /\ UNCHANGED <<privVars, yieldVars, state, writeAndGo, running, pipe, sockHalf,
                   rbufHalf, hdr, cookie, readEnabled, engOwed, pending_io,
                   notifyPipe, msglist, outbuf, refcount, notification,
                   authState, sentVars, histVars>>

(* ----- the worker: callbacks that start the state machine ----- *)

(* The loop over the connection's pending-io entry in read_callback,       *)
(* write_callback and event_callback: each completion sets the cookie's    *)
(* aiostat and clears its ewouldblock flag.                                *)
CookieAfterPendingIo_stillBlocked ==
    IF pending_io = <<>> THEN cookie
    ELSE [cookie EXCEPT !.aiostat = pending_io[Len(pending_io)]]
CookieAfterPendingIo ==
    IF pending_io = <<>> THEN cookie
    ELSE [cookie EXCEPT !.aiostat = pending_io[Len(pending_io)],
                        !.ewouldblock = FALSE]
DeliveredAfterPendingIo ==
    IF cookie.ewouldblock THEN delivered + Len(pending_io) ELSE delivered

(* Connection::runStateMachinery up to its loop: the check for a stuck     *)
(* send queue.  st is the state the callback left the connection in and    *)
(* size the current size of the send queue.                                *)
StuckLimit_ready(ready) == StuckLimitReady
StuckLimit(ready) == IF ready THEN StuckLimitReady ELSE StuckLimitOther
StuckCheck(st, size) ==
    IF size = 0
    THEN [state |-> st, info |-> [sendQueueInfo EXCEPT !.size = 0]]
    ELSE IF sendQueueInfo.size # size
    THEN [state |-> st,
          info |-> [sendQueueInfo EXCEPT !.size = size, !.age = 0]]
    ELSE IF sendQueueInfo.age > StuckLimit(bucketReady)
    THEN [state |-> "closing", info |-> [sendQueueInfo EXCEPT !.term = TRUE]]
    ELSE [state |-> st, info |-> sendQueueInfo]

(* What the three callbacks and the worker's dispatch have in common. *)
RunEventLoop(st, size) ==
    /\ cookie' = CookieAfterPendingIo
    /\ delivered' = DeliveredAfterPendingIo
    /\ pending_io' = <<>>
    /\ notification' = FALSE
    /\ state' = StuckCheck(st, size).state
    /\ sendQueueInfo' = StuckCheck(st, size).info
    /\ numEvents' = max_reqs_per_event
    /\ entryReqs' = 0
    /\ yielding' = NoYield(max_reqs_per_event)
    /\ running' = TRUE

read_callback ==
    /\ ~running
    /\ state # "destroyed"
    /\ (readEnabled /\ sockHalf > 0) \/ yielding.trigger
    /\ RunEventLoop(state, getSendQueueSize)
    /\ UNCHANGED <<privVars, writeAndGo, pipe, sockHalf, rbufHalf, hdr,
                   readEnabled, engOwed, notifyPipe, msglist, outbuf,
                   refcount, authState, sentVars, respLog, startedIds,
                   doneIds, lastExec>>

(* The socket took what was in the send queue, or can take more. *)
write_callback ==
    /\ ~running
    /\ state # "destroyed"
    /\ ~(outbuf = 0 /\ state # "send_data")
    /\ outbuf' = 0
    /\ RunEventLoop(state, 0)
    /\ UNCHANGED <<privVars, writeAndGo, pipe, sockHalf, rbufHalf, hdr,
                   readEnabled, engOwed, notifyPipe, msglist, refcount,
                   authState, sentVars, respLog, startedIds, doneIds,
                   lastExec>>

(* The peer hung up or the socket failed. *)
event_callback ==
    /\ ~running
    /\ state # "destroyed"
    /\ RunEventLoop(IF state # "pending_close" THEN "closing" ELSE state,
                    getSendQueueSize)
    /\ UNCHANGED <<privVars, writeAndGo, pipe, sockHalf, rbufHalf, hdr,
                   readEnabled, engOwed, notifyPipe, msglist, outbuf,
                   refcount, authState, sentVars, respLog, startedIds,
                   doneIds, lastExec>>

(* thread_libevent_process: the worker drains its notification pipe, takes *)
(* the lists and runs the event loop of the connection found there.        *)
thread_libevent_process ==
    /\ ~running
    /\ notifyPipe
    /\ notifyPipe' = FALSE
    /\ IF state # "destroyed" /\ (pending_io # <<>> \/ notification)
       THEN RunEventLoop(state, getSendQueueSize)
       ELSE UNCHANGED <<cookie, delivered, pending_io, notification, state,
                        sendQueueInfo, running, yieldVars>>
    /\ UNCHANGED <<privVars, writeAndGo, pipe, sockHalf, rbufHalf, hdr,
                   readEnabled, engOwed, msglist, outbuf, refcount,
                   authState, sentVars, respLog, startedIds, doneIds,
                   lastExec>>

(* ----- the worker: the handlers of the state machine ----- *)

(* Cookie::reset as far as the model's cookie goes. *)
Cookie_reset(c) == [c EXCEPT !.packet = FALSE]

conn_new_cmd ==
    /\ running
    /\ state = "new_cmd"
    /\ cookie' = Cookie_reset(cookie)
    /\ state' = IF rbufHalf >= 1 THEN "parse_cmd"
                ELSE setCurrentState("waiting")
    /\ lastExec' = NoExec
    /\ UNCHANGED <<privVars, yieldVars, writeAndGo, running, pipe, sockHalf, rbufHalf,
                   hdr, readEnabled, engOwed, pending_io, notifyPipe,
                   msglist, outbuf, refcount, sendQueueInfo, notification,
                   authState, sentVars, respLog, startedIds, doneIds,
                   delivered>>

(* ServerEvent::execute: the two events of the external authentication    *)
(* put a request of the server into the send buffer, ask for it to be sent *)
(* and return true; an event of another kind may also return false and     *)
(* leave the connection as it is.                                          *)
ExecuteResults(ev) == IF ev.kind = "Other" THEN BOOLEAN ELSE {TRUE}
ServerRequest(ev) ==
    [id |-> 0, opaque |-> ev.id, status |-> ev.kind, reqOpaque |-> ev.id]

(* Connection::enqueueServerEvent; the variant before it jumps the queue. *)
enqueueServerEvent_first(q, ev) == <<ev>> \o q
enqueueServerEvent(q, ev) == Append(q, ev)

(* Connection::processServerEvents: execute the event at the front and     *)
(* pop it when execute returned true.  ran is what execute returned, false *)
(* when there was no event; the function returns whether the state         *)
(* changed, which it did when the event asked for its packet to be sent.   *)
ProcessResults ==
    IF server_events = <<>> THEN {FALSE}
    ELSE ExecuteResults(server_events[1])
processServerEvents(ran) ==
    /\ evLast' = IF server_events = <<>> THEN evLast
                 ELSE [seq |-> server_events[1].seq, ok |-> ran]
    /\ IF ran
       THEN /\ server_events' = Tail(server_events)
            /\ evDone' = Append(evDone, server_events[1].seq)
            /\ msglist' = Append(msglist, ServerRequest(server_events[1]))
            /\ writeAndGo' = "new_cmd"
       ELSE UNCHANGED <<server_events, evDone, msglist, writeAndGo>>

conn_waiting ==
    /\ running
    /\ state = "waiting"
    /\ \E ran \in ProcessResults :
         /\ processServerEvents(ran)
         /\ state' = IF ran THEN setCurrentState("send_data")
                     ELSE setCurrentState("read_packet_header")
    /\ UNCHANGED <<privCore, subdoc, sideVars, yieldVars, mgrVars, running, pipe, sockHalf,
                   rbufHalf, hdr, cookie, readEnabled, engOwed, pending_io,
                   notifyPipe, outbuf, refcount, sendQueueInfo, notification,
                   authState, sentVars, histVars>>

(* Connection::tryReadNetwork moves what the socket holds to the read      *)
(* buffer; the socket may also report an error.                            *)
TryReadResults ==
    {"Error"} \cup (IF sockHalf > 0 THEN {"DataReceived"}
                    ELSE {"NoDataReceived"})

conn_read_packet_header ==
    /\ running
    /\ state = "read_packet_header"
    /\ \E ran \in ProcessResults, res \in TryReadResults :
         /\ processServerEvents(ran)
         /\ rbufHalf' = IF ~ran /\ res = "DataReceived"
                        THEN rbufHalf + sockHalf ELSE rbufHalf
         /\ sockHalf' = IF ~ran /\ res = "DataReceived" THEN 0 ELSE sockHalf
         /\ state' = IF ran THEN setCurrentState("send_data")
                     ELSE IF res = "Error" THEN setCurrentState("closing")
                     ELSE IF res = "NoDataReceived"
                     THEN setCurrentState("waiting")
                     ELSE IF rbufHalf' >= 1 THEN setCurrentState("parse_cmd")
                     ELSE setCurrentState("waiting")
         /\ running' = (ran \/ res # "NoDataReceived")
    /\ UNCHANGED <<privCore, subdoc, sideVars, yieldVars, mgrVars, pipe, hdr, cookie, readEnabled,
                   engOwed, pending_io, notifyPipe, outbuf, refcount,
                   sendQueueInfo, notification, authState, sentVars,
                   histVars>>

(* try_read_mcbp_command copies the header of the next packet of the read  *)
(* buffer into the connection; the packet is complete when its body is in  *)
(* the buffer as well.                                                     *)
NextHeader_kept == hdr
NextHeader == [opaque |-> Head(pipe).opaque]
isPacketAvailable(halves) == halves >= 2

conn_parse_cmd ==
    /\ running
    /\ state = "parse_cmd"
    /\ hdr' = NextHeader
    /\ cookie' = [cookie EXCEPT !.packet = isPacketAvailable(rbufHalf)]
    /\ state' = IF isPacketAvailable(rbufHalf)
                THEN setCurrentState("validate")
                ELSE setCurrentState("read_packet_body")
    /\ UNCHANGED <<privVars, yieldVars, writeAndGo, running, pipe, sockHalf, rbufHalf,
                   readEnabled, engOwed, pending_io, notifyPipe, msglist,
                   outbuf, refcount, sendQueueInfo, notification, authState,
                   sentVars, histVars>>

conn_read_packet_body ==
    /\ running
    /\ state = "read_packet_body"
    /\ \E res \in TryReadResults :
         /\ rbufHalf' = IF res = "DataReceived" THEN rbufHalf + sockHalf
                        ELSE rbufHalf
         /\ sockHalf' = IF res = "DataReceived" THEN 0 ELSE sockHalf
         /\ IF res = "Error"
            THEN /\ state' = setCurrentState("closing")
                 /\ running' = TRUE
                 /\ cookie' = cookie
            ELSE IF res = "DataReceived" /\ isPacketAvailable(rbufHalf')
            THEN /\ state' = setCurrentState("validate")
                 /\ running' = TRUE
                 /\ cookie' = [cookie EXCEPT !.packet = TRUE]
            ELSE /\ state' = state
                 /\ running' = FALSE
                 /\ cookie' = cookie
    /\ UNCHANGED <<privVars, yieldVars, writeAndGo, pipe, hdr, readEnabled, engOwed,
                   pending_io, notifyPipe, msglist, outbuf, refcount,
                   sendQueueInfo, notification, authState, sentVars,
                   histVars>>

(* Cookie::sendResponse / mcbp_write_packet: the response is added to the  *)
(* message list, the connection goes on to send it and then to the next    *)
(* command.                                                                *)
sendResponse(status) ==
    /\ msglist' = Append(msglist, mcbp_add_header(status))
    /\ respLog' = Append(respLog, getPacket(pipe).id)
    /\ state' = setCurrentState("send_data")

(* What conn_validate asks of the packet: cb::mcbp::is_client_magic,       *)
(* cb::mcbp::is_valid_opcode and the validator of the opcode, which        *)
(* answers Einval to a packet that is not well formed and                  *)
(* DurabilityInvalidLevel to a durability requirement of level 0.          *)
is_client_magic(kind) == kind # "server_request"
is_valid_opcode(kind) == kind # "unknown_opcode"
McbpValidator_validate(kind) ==
    CASE kind = "invalid" -> "Einval"
      [] kind = "durability_level" -> "DurabilityInvalidLevel"
      [] OTHER -> "Success"

(* conn_validate: a server command closes the connection, an unknown       *)
(* opcode is answered, a packet its validator rejects is answered and the  *)
(* connection closed after the answer, and any other packet is executed.   *)
(* The packet stays in the read buffer in every case.                      *)
conn_validate ==
    /\ running
    /\ state = "validate"
    /\ Len(respLog) <= MaxReq
    /\ LET kind == getPacket(pipe).kind
           result == McbpValidator_validate(kind)
       IN IF ~is_client_magic(kind)
          THEN /\ state' = setCurrentState("closing")
               /\ UNCHANGED <<msglist, respLog, writeAndGo>>
          ELSE IF ~is_valid_opcode(kind)
          THEN /\ sendResponse("UnknownCommand")
               /\ writeAndGo' = "new_cmd"
          ELSE IF result # "Success"
          THEN /\ sendResponse(result)
               /\ writeAndGo' = "closing"
          ELSE /\ state' = setCurrentState("execute")
               /\ UNCHANGED <<msglist, respLog, writeAndGo>>
    /\ UNCHANGED <<privVars, yieldVars, running, pipe, sockHalf, rbufHalf,
                   hdr, cookie, readEnabled, engOwed, pending_io, notifyPipe,
                   outbuf, refcount, sendQueueInfo, notification, authState,
                   sentVars, startedIds, doneIds, delivered, lastExec>>

(* What the engine may answer when a command is driven. *)
EngineResults ==
    {"Success", "Ewouldblock", "Disconnect", "Tmpfail", "Failed", "NoBucket",
     "Eaccess", "AuthStale", "UnknownCollection",
     "CollectionsManifestIsAhead"}
(* What the privilege check of a command may answer. *)
PrivilegeAccess == {"Ok", "Fail", "Stale"}

(* The variant before drive answers the client where drive would close    *)
(* the connection.                                                         *)
drive_answering(eng) ==
    LET ret0 == cookie.aiostat
        ret1 == IF ret0 = "Success" THEN eng ELSE ret0
        r == Remap(ret1)
    IN [handed |-> TRUE,
        code |-> ret1,
        engineCalled |-> (ret0 = "Success"),
        blocked |-> (r = "Ewouldblock"),
        closing |-> FALSE,
        response |-> IF r = "Ewouldblock" THEN "none" ELSE r,
        silent |-> FALSE,
        aiostat |-> "Success"]
(* SteppableCommandContext::drive: take the status left by the completion, *)
(* call the engine if that was success, and act on the remapped result.    *)
drive(eng) ==
    LET ret0 == cookie.aiostat
        ret1 == IF ret0 = "Success" THEN eng ELSE ret0
        r == Remap(ret1)
    IN [handed |-> TRUE,
        code |-> ret1,
        engineCalled |-> (ret0 = "Success"),
        blocked |-> (r = "Ewouldblock"),
        closing |-> (r = "Disconnect"),
        response |-> IF r \in {"Ewouldblock", "Disconnect"} THEN "none"
                     ELSE r,
        silent |-> FALSE,
        aiostat |-> "Success"]

(* dcp_system_event_executor: a message of a DCP stream is answered only   *)
(* when the engine refuses it; after a success the connection goes to the  *)
(* next command at once.                                                   *)
dcp_system_event_executor(eng) ==
    LET ret0 == cookie.aiostat
        ret1 == IF ret0 = "Success" THEN eng ELSE ret0
        r == Remap(ret1)
    IN [handed |-> TRUE,
        code |-> ret1,
        engineCalled |-> (ret0 = "Success"),
        blocked |-> (r = "Ewouldblock"),
        closing |-> (r = "Disconnect"),
        response |-> IF r \in {"Success", "Ewouldblock", "Disconnect"}
                     THEN "none" ELSE r,
        silent |-> (r = "Success"),
        aiostat |-> "Success"]

(* The executor of the command in the packet. *)
Executor(eng) ==
    IF getPacket(pipe).kind = "dcp_system_event"
    THEN dcp_system_event_executor(eng)
    ELSE drive(eng)

(* What execute_request_packet does when access is denied with the given   *)
(* status: disconnect a client that cannot be told, tell the others.       *)
Denied(status) ==
    [handed |-> FALSE,
     code |-> status,
     engineCalled |-> FALSE,
     blocked |-> FALSE,
     closing |-> (Remap(status) = "Disconnect"),
     response |-> IF Remap(status) = "Disconnect" THEN "none" ELSE status,
     silent |-> FALSE,
     aiostat |-> cookie.aiostat]

(* execute_request_packet: the privilege check decides whether the         *)
(* command reaches its executor.                                           *)
execute_request_packet_unchecked(priv, eng) == Executor(eng)
execute_request_packet(priv, eng) ==
    IF priv = "Fail" THEN Denied("Eaccess")
    ELSE IF priv = "Stale" THEN Denied("AuthStale")
    ELSE Executor(eng)

conn_execute ==
    /\ running
    /\ state = "execute"
    /\ \E priv \in PrivilegeAccess, eng \in EngineResults :
         LET o == execute_request_packet(priv, eng)
         IN /\ lastExec' = [priv |-> priv, executed |-> o.handed,
                             code |-> o.code]
            /\ startedIds' = IF o.handed
                             THEN startedIds \cup {getPacket(pipe).id}
                             ELSE startedIds
            /\ engOwed' = IF o.engineCalled /\ o.blocked THEN engOwed + 1
                          ELSE engOwed
            /\ IF o.blocked
               THEN /\ cookie' = [cookie EXCEPT !.ewouldblock = TRUE,
                                                !.aiostat = o.aiostat]
                    /\ readEnabled' = FALSE
                    /\ running' = FALSE
                    /\ delivered' = 0
                    /\ UNCHANGED <<state, writeAndGo, msglist, respLog,
                                   rbufHalf, pipe, doneIds, entryReqs>>
               ELSE /\ cookie' = [cookie EXCEPT !.ewouldblock = FALSE,
                                                !.aiostat = o.aiostat,
                                                !.packet = FALSE]
                    /\ readEnabled' = TRUE
                    /\ running' = TRUE
                    /\ delivered' = delivered
                    /\ IF o.closing
                       THEN /\ state' = setCurrentState("closing")
                            /\ UNCHANGED <<msglist, respLog, writeAndGo>>
                       ELSE IF o.silent
                       THEN /\ state' = setCurrentState("new_cmd")
                            /\ UNCHANGED <<msglist, respLog, writeAndGo>>
                       ELSE /\ sendResponse(o.response)
                            /\ writeAndGo' = "new_cmd"
                    /\ rbufHalf' = rbufHalf - 2
                    /\ pipe' = consume(pipe)
                    /\ doneIds' = doneIds \cup {getPacket(pipe).id}
                    /\ entryReqs' = IF entryReqs > max_reqs_per_event
                                    THEN entryReqs ELSE entryReqs + 1
    /\ UNCHANGED <<privVars, numEvents, yielding, sockHalf, hdr, pending_io, notifyPipe, outbuf,
                   refcount, sendQueueInfo, notification, authState,
                   sentVars>>

(* Connection::transmit hands the message list to the socket. *)
TransmitResults == {"Complete", "SoftError", "HardError"}

conn_send_data ==
    /\ running
    /\ state = "send_data"
    /\ \E res \in TransmitResults :
         /\ msglist' = IF res = "Complete" THEN <<>> ELSE msglist
         /\ outbuf' = IF res = "Complete" THEN outbuf + Len(msglist)
                      ELSE outbuf
         /\ state' = IF res = "Complete"
                     THEN setCurrentState("drain_send_buffer")
                     ELSE IF res = "HardError"
                     THEN setCurrentState("closing")
                     ELSE state
         /\ running' = (res # "SoftError")
    /\ UNCHANGED <<privVars, yieldVars, writeAndGo, pipe, sockHalf, rbufHalf, hdr,
                   cookie, readEnabled, engOwed, pending_io, notifyPipe,
                   refcount, sendQueueInfo, notification, authState,
                   sentVars, histVars>>

conn_drain_send_buffer ==
    /\ running
    /\ state = "drain_send_buffer"
    /\ IF havePendingData
       THEN /\ running' = FALSE
            /\ state' = state
       ELSE /\ running' = TRUE
            /\ state' = setCurrentState(writeAndGo)
    /\ UNCHANGED <<privVars, yieldVars, writeAndGo, pipe, sockHalf, rbufHalf, hdr,
                   cookie, readEnabled, engOwed, pending_io, notifyPipe,
                   msglist, outbuf, refcount, sendQueueInfo, notification,
                   authState, sentVars, histVars>>

(* What the DCP producer of the engine may answer to step. *)
DcpStepResults == {"Success", "Ewouldblock", "Disconnect"}
DcpMessage == [id |-> 0, opaque |-> 0, status |-> "DcpMessage",
               reqOpaque |-> 0]

conn_ship_log ==
    /\ running
    /\ state = "ship_log"
    /\ \E res \in TryReadResults, step \in DcpStepResults :
         LET halves == IF res = "DataReceived" THEN rbufHalf + sockHalf
                       ELSE rbufHalf
         IN /\ rbufHalf' = halves
            /\ sockHalf' = IF res = "DataReceived" THEN 0 ELSE sockHalf
            /\ IF res = "Error"
               THEN /\ state' = setCurrentState("closing")
                    /\ running' = TRUE
                    /\ cookie' = [cookie EXCEPT !.ewouldblock = FALSE]
                    /\ UNCHANGED <<hdr, msglist, writeAndGo>>
               ELSE IF isPacketAvailable(halves)
               THEN /\ hdr' = NextHeader
                    /\ cookie' = [cookie EXCEPT !.ewouldblock = FALSE,
                                                !.packet = TRUE]
                    /\ state' = setCurrentState("validate")
                    /\ running' = TRUE
                    /\ UNCHANGED <<msglist, writeAndGo>>
               ELSE /\ cookie' = [cookie EXCEPT !.ewouldblock = FALSE]
                    /\ hdr' = hdr
                    /\ msglist' = IF Remap(step) = "Success"
                                  THEN Append(msglist, DcpMessage)
                                  ELSE msglist
                    /\ state' = IF Remap(step) = "Success"
                                THEN setCurrentState("send_data")
                                ELSE IF Remap(step) = "Ewouldblock"
                                THEN state
                                ELSE setCurrentState("closing")
                    /\ writeAndGo' = IF Remap(step) = "Success"
                                     THEN "ship_log" ELSE writeAndGo
                    /\ running' = (Remap(step) # "Ewouldblock")
    /\ UNCHANGED <<privVars, yieldVars, pipe, readEnabled, engOwed, pending_io,
                   notifyPipe, outbuf, refcount, sendQueueInfo, notification,
                   authState, sentVars, histVars>>

(* Connection::close: count the references, see whether a cookie is        *)
(* blocked, and either finish (immediate_close, true) or put the close     *)
(* off (pending_close, false).                                             *)
close ==
    LET ewb0 == cookie.ewouldblock
        rc == refcount + cookie.refcount
        ewb == IF features.mode = "dcp" THEN FALSE ELSE ewb0
        deferred == rc > 1 \/ ewb \/ havePendingData
    IN /\ cookie' = IF ewb0 THEN cookie ELSE Cookie_reset(cookie)
       /\ readEnabled' = IF state = "closing" THEN FALSE ELSE readEnabled
       /\ state' = IF deferred THEN setCurrentState("pending_close")
                   ELSE setCurrentState("immediate_close")
       /\ running' = ~deferred

conn_closing ==
    /\ running
    /\ state = "closing"
    /\ authState = "registered" => ~mgr.locked
    /\ authState' = IF authState = "registered" THEN "pendingRemove"
                    ELSE authState
    /\ close
    /\ UNCHANGED <<privVars, yieldVars, writeAndGo, pipe, sockHalf, rbufHalf, hdr,
                   engOwed, pending_io, notifyPipe, msglist, outbuf,
                   refcount, sendQueueInfo, notification, sentVars, respLog,
                   startedIds, doneIds, delivered, lastExec>>

(* The variant before conn_pending_close takes up the requests again when *)
(* nothing holds the connection any more.                                  *)
conn_pending_close_resumed ==
    /\ running
    /\ state = "pending_close"
    /\ state' = IF cookie.ewouldblock \/ havePendingData
                THEN state ELSE setCurrentState("new_cmd")
    /\ running' = ~(cookie.ewouldblock \/ havePendingData)
    /\ UNCHANGED <<cookie, readEnabled>>
    /\ UNCHANGED <<privVars, yieldVars, writeAndGo, pipe, sockHalf, rbufHalf, hdr,
                   engOwed, pending_io, notifyPipe, msglist, outbuf,
                   refcount, sendQueueInfo, notification, authState,
                   sentVars, respLog, startedIds, doneIds, delivered,
                   lastExec>>
conn_pending_close ==
    /\ running
    /\ state = "pending_close"
    /\ close
    /\ UNCHANGED <<privVars, yieldVars, writeAndGo, pipe, sockHalf, rbufHalf, hdr,
                   engOwed, pending_io, notifyPipe, msglist, outbuf,
                   refcount, sendQueueInfo, notification, authState,
                   sentVars, respLog, startedIds, doneIds, delivered,
                   lastExec>>

conn_immediate_close ==
    /\ running
    /\ state = "immediate_close"
    /\ notification' = FALSE
    /\ pending_io' = <<>>
    /\ msglist' = <<>>
    /\ outbuf' = 0
    /\ state' = setCurrentState("destroyed")
    /\ running' = FALSE
    /\ UNCHANGED <<privVars, yieldVars, writeAndGo, pipe, sockHalf, rbufHalf, hdr,
                   cookie, readEnabled, engOwed, notifyPipe, refcount,
                   sendQueueInfo, authState, sentVars, histVars>>

(* ----- the privilege checks of one request ----- *)

(* PrivilegeContext::check: a context older than the RBAC database says    *)
(* Stale, a current one says whether it holds the privilege.               *)
PrivilegeContext_check == IF ctxStale THEN {"Stale"} ELSE {"Ok", "Fail"}

(* cb::rbac::createContext: a new context, or one without the bucket when  *)
(* the user lost it, or an exception when the user is gone.                *)
CreateContextResults == {"Created", "NoSuchBucket", "Exception"}

(* The condition of checkPrivilege's loop, after a variant of it that      *)
(* forgets the limit.                                                      *)
LoopContinues_unbounded(ans, n) == ans = "Stale"
LoopContinues(ans, n) == ans = "Stale" /\ n < max_retries

(* The end of checkPrivilege: a failure is let through when privilege      *)
(* debug is on.  The variant before it lets every failure through.         *)
FailConversion_always(ret, debug) == IF ret = "Fail" THEN "Ok" ELSE ret
FailConversion(ret, debug) == IF ret = "Fail" /\ debug THEN "Ok" ELSE ret

(* The engine code that stands for a check that did not say Ok, after a    *)
(* variant that does not tell a stale context from a missing privilege.    *)
AccessDenied_eaccess(res) == "Eaccess"
AccessDenied(res) == IF res = "Stale" THEN "AuthStale" ELSE "Eaccess"

UpTo(n) == IF n > max_retries THEN max_retries + 1 ELSE n

(* The RBAC database changes under the connection. *)
RbacUpdate ==
    /\ ~ctxStale
    /\ ppc # "idle"
    /\ ctxStale' = TRUE
    /\ UNCHANGED <<auxVars, connVars, ppc, retries, xattrRead, privDebug, rebuilds,
                   lastCall, outcome, ctxVars>>

(* execute_request_packet starts with the privilege chain of the opcode. *)
StartRequest ==
    /\ ppc \in {"idle", "done"}
    /\ state = "new_cmd"
    /\ ppc' = "chain"
    /\ retries' = 0
    /\ xattrRead' = FALSE
    /\ rebuilds' = 0
    /\ lastCall' = NoCall
    /\ outcome' = NoOutcome
    /\ UNCHANGED <<auxVars, connVars, ctxStale, privDebug, ctxVars>>

(* What the caller of checkPrivilege does with its result res: the         *)
(* privilege chain in execute_request_packet hands the request to the      *)
(* executor or refuses it; the executor, a subdocument lookup of the       *)
(* virtual attribute that lists the extended attributes, goes through      *)
(* validate_vattr_privilege.                                               *)
Refused(res, wasHanded) ==
    /\ ppc' = "done"
    /\ outcome' = [handed |-> wasHanded, final |-> Remap(AccessDenied(res))]
    /\ xattrRead' = xattrRead

Returned(res) ==
    IF ppc = "chain"
    THEN IF res = "Ok"
         THEN /\ ppc' = "xattrRead"
              /\ outcome' = [handed |-> TRUE, final |-> "none"]
              /\ xattrRead' = xattrRead
         ELSE Refused(res, FALSE)
    ELSE IF res = "Stale"
    THEN Refused(res, TRUE)
    ELSE IF ppc = "xattrRead"
    THEN /\ ppc' = "sysXattrRead"
         /\ outcome' = outcome
         /\ xattrRead' = (res = "Ok")
    ELSE IF xattrRead \/ res = "Ok"
    THEN /\ ppc' = "done"
         /\ outcome' = [handed |-> TRUE, final |-> "Success"]
         /\ xattrRead' = xattrRead
    ELSE Refused(res, TRUE)

(* Connection::checkPrivilege, one turn of its loop at a time: ask the     *)
(* context; while it says Stale and fewer than max_retries rebuilds were   *)
(* made, rebuild it and ask again; otherwise return what it said.          *)
checkPrivilege ==
    /\ ppc \in {"chain", "xattrRead", "sysXattrRead"}
    /\ \E ans \in PrivilegeContext_check, made \in CreateContextResults,
          ctx \in Created :
         /\ IF LoopContinues(ans, retries)
            THEN /\ rebuilds' = UpTo(rebuilds + 1)
                 /\ IF made = "Exception"
                    THEN /\ lastCall' = [answer |-> ans, result |-> "Fail",
                                         exhausted |-> FALSE]
                         /\ retries' = 0
                         /\ ctxStale' = ctxStale
                         /\ privilegeContext' = privilegeContext
                         /\ Returned("Fail")
                    ELSE /\ retries' = retries + 1
                         /\ ctxStale' = FALSE
                         /\ privilegeContext' = ctx
                         /\ UNCHANGED <<ppc, outcome, xattrRead, lastCall>>
            ELSE /\ rebuilds' = rebuilds
                 /\ privilegeContext' = privilegeContext
                 /\ lastCall' = [answer |-> ans,
                                 result |-> FailConversion(ans, privDebug),
                                 exhausted |-> (retries = max_retries)]
                 /\ retries' = 0
                 /\ ctxStale' = ctxStale
                 /\ Returned(FailConversion(ans, privDebug))
    /\ UNCHANGED <<auxVars, connVars, privDebug, bucketIndex, authenticated>>

(* conn_ssl_init: the certificate the client showed in the handshake       *)
(* decides whether the connection goes on, and as whom.  A certificate     *)
(* that names a user goes through tryAuthFromSslCert, which authenticates  *)
(* the connection when the user is known.                                  *)
CertStatus == {"NoMatch", "Error", "NotPresent", "Success"}
conn_ssl_init ==
    /\ state = "new_cmd"
    /\ ppc = "idle"
    /\ bucketIndex = 0
    /\ ~authenticated
    /\ \E cert \in CertStatus, mandatory \in BOOLEAN, known \in BOOLEAN,
          defaultBucket \in BOOLEAN, made \in createContext :
         LET disconnect == \/ cert \in {"NoMatch", "Error"}
                           \/ cert = "NotPresent" /\ mandatory
                           \/ cert = "Success" /\ ~known
         IN /\ state' = IF disconnect THEN "closing" ELSE "new_cmd"
            /\ IF cert = "Success"
               THEN /\ made.from = "rbac"
                    /\ authenticated' = known
                    /\ privilegeContext' = setAuthenticated(known, made)
                    /\ bucketIndex' = bucketIndex
                    /\ ctxStale' = FALSE
               ELSE IF cert = "NotPresent" /\ ~mandatory /\ defaultBucket
               THEN /\ bucketIndex' = DefaultBucket
                    /\ privilegeContext' =
                           setBucketIndex(DefaultBucket, authenticated, made)
                    /\ authenticated' = authenticated
                    /\ ctxStale' = FALSE
               ELSE UNCHANGED <<ctxVars, ctxStale>>
    /\ UNCHANGED <<auxVars, connRest, ppc, retries, xattrRead, privDebug, rebuilds,
                   lastCall, outcome>>

(* select_bucket_executor: an authenticated connection whose user the      *)
(* database knows is put in the bucket it names, if there is one.          *)
select_bucket_executor ==
    /\ state = "new_cmd"
    /\ ppc \in {"idle", "done"}
    /\ \E idx \in Buckets, found \in BOOLEAN, probe \in createContext,
          made \in createContext :
         LET code == IF ~authenticated THEN "Eaccess"
                     ELSE IF probe.from = "exception" THEN "Eaccess"
                     ELSE IF found THEN "Success"
                     ELSE "KeyEnoent"
         IN /\ IF code = "Success"
               THEN /\ bucketIndex' = idx
                    /\ privilegeContext' =
                           setBucketIndex(idx, authenticated, made)
                    /\ ctxStale' = FALSE
               ELSE UNCHANGED <<bucketIndex, privilegeContext, ctxStale>>
            /\ outcome' = [handed |-> TRUE, final |-> Remap(code)]
            /\ state' = IF Remap(code) = "Disconnect" THEN "closing"
                        ELSE state
    /\ ppc' = "done"
    /\ lastCall' = NoCall
    /\ UNCHANGED <<auxVars, connRest, authenticated, retries, xattrRead, privDebug,
                   rebuilds>>

NextPriv ==
    \/ RbacUpdate
    \/ StartRequest
    \/ checkPrivilege

InitPriv ==
    /\ InitConnection
    /\ InitPrivilege
    /\ InitAux
    /\ privDebug \in BOOLEAN
    /\ features \in [xerror : BOOLEAN, collections : {FALSE},
                     mode : {"ordered"}]

SpecPriv == InitPriv /\ [][NextPriv]_vars

(* The same with the handshake and the selection of buckets, for a server  *)
(* without privilege debug.                                                *)
NextBucket ==
    \/ RbacUpdate
    \/ StartRequest
    \/ checkPrivilege
    \/ conn_ssl_init
    \/ select_bucket_executor

InitBucket ==
    /\ InitConnection
    /\ InitPrivilege
    /\ InitAux
    /\ privDebug = FALSE
    /\ features \in [xerror : BOOLEAN, collections : {FALSE},
                     mode : {"ordered"}]

SpecBucket == InitBucket /\ [][NextBucket]_vars

(* ----- subdocument commands ----- *)

(* subdoc_executor's MAXIMUM_ATTEMPTS *)
MAXIMUM_ATTEMPTS == 100

(* What bucket_get and bucket_store (or bucket_remove) answer. *)
FetchResults == {"Success", "Ewouldblock", "Disconnect", "Tmpfail"}
StoreResults == {"Success", "KeyEexists", "Ewouldblock", "Disconnect",
                 "Tmpfail"}

(* The client sends a subdocument mutation, with a CAS of its own or       *)
(* without one; the cookie of the new command has no context and a clean   *)
(* aiostat.                                                                *)
SubdocRequest ==
    /\ subdoc.phase \in {"idle", "done"}
    /\ \E cas0 \in BOOLEAN :
          subdoc' = [NoSubdoc EXCEPT !.phase = "new", !.auto_retry = cas0]
    /\ UNCHANGED <<connVars, privCore, evVars, mgrVars, sideVars>>

(* The engine completes the operation the command waits for; the command   *)
(* is executed again.                                                      *)
subdoc_notify_io_complete ==
    /\ subdoc.phase = "blocked"
    /\ \E status \in CompletionStatus :
          subdoc' = [subdoc EXCEPT !.phase = "resumed", !.aiostat = status]
    /\ UNCHANGED <<connVars, privCore, evVars, mgrVars, sideVars>>

(* subdoc_fetch: nothing to do when the context holds the item; otherwise  *)
(* ask the engine unless a status came with the resumption.  "go" says     *)
(* that the executor continues.                                            *)
subdoc_fetch(fetchedItem, ret, get) ==
    IF fetchedItem THEN [go |-> TRUE, fetchedItem |-> TRUE, ret |-> ret]
    ELSE LET r == IF ret = "Success" THEN Remap(get) ELSE ret
         IN [go |-> (r = "Success"), fetchedItem |-> (r = "Success"),
             ret |-> r]

(* subdoc_update for a mutation: store the document unless a status came   *)
(* with the resumption; "stored" says that the engine was asked to.        *)
subdoc_update(ret, store) ==
    [stored |-> (ret = "Success"),
     ret |-> IF ret = "Success" THEN Remap(store) ELSE ret]

(* How a call of subdoc_fetch or subdoc_update that does not succeed       *)
(* leaves the command: suspended, closing, or answered.                    *)
SubdocFailed(sd, ret) ==
    IF ret = "Ewouldblock" THEN [sd EXCEPT !.phase = "blocked"]
    ELSE IF ret = "Disconnect" THEN [sd EXCEPT !.phase = "closing"]
    ELSE [sd EXCEPT !.phase = "done", !.response = ret]

(* The condition of subdoc_executor's do-while loop. *)
SubdocRetry(auto_retry, attempts) ==
    auto_retry /\ attempts < MAXIMUM_ATTEMPTS

(* subdoc_executor, one round of its loop.  A call of the executor starts  *)
(* with the aiostat of the cookie and with attempts of 0; a further round  *)
(* starts with success and a cookie without context.  The stores are       *)
(* counted for the request, up to one more than MAXIMUM_ATTEMPTS.          *)
subdoc_executor ==
    /\ subdoc.phase \in {"new", "resumed", "loop"}
    /\ \E get \in FetchResults, store \in StoreResults :
          LET called == subdoc.phase # "loop"
              ret0 == IF called THEN subdoc.aiostat ELSE "Success"
              attempts == (IF called THEN 0 ELSE subdoc.attempts) + 1
              f == subdoc_fetch(subdoc.fetchedItem, ret0, get)
              u == subdoc_update(f.ret, store)
              sd == [subdoc EXCEPT !.attempts = attempts,
                                   !.aiostat = "Success",
                                   !.fetchedItem = f.fetchedItem]
              counted == [sd EXCEPT !.stores =
                             IF u.stored /\ sd.stores <= MAXIMUM_ATTEMPTS
                             THEN sd.stores + 1 ELSE sd.stores]
          IN subdoc' =
               IF ~f.go THEN SubdocFailed(sd, f.ret)
               ELSE IF u.ret = "KeyEexists"
                    THEN IF ~sd.auto_retry
                         THEN [counted EXCEPT !.phase = "done",
                                              !.response = "KeyEexists"]
                         ELSE IF SubdocRetry(sd.auto_retry, attempts)
                         THEN [counted EXCEPT !.phase = "loop",
                                              !.fetchedItem = FALSE]
                         ELSE [counted EXCEPT !.phase = "done",
                                              !.fetchedItem = FALSE,
                                              !.response = "Tmpfail"]
               ELSE IF u.ret # "Success" THEN SubdocFailed(counted, u.ret)
               ELSE [counted EXCEPT !.phase = "done",
                                    !.response = "Success"]
    /\ UNCHANGED <<connVars, privCore, evVars, mgrVars, sideVars>>

NextSubdoc ==
    \/ SubdocRequest
    \/ subdoc_notify_io_complete
    \/ subdoc_executor

SpecSubdoc == InitBucket /\ [][NextSubdoc]_vars

(* ----- the external authentication manager ----- *)

(* The manager's map is gone through and the queues are filled in the      *)
(* order of the numbers.                                                   *)
RECURSIVE InOrder(_)
InOrder(S) ==
    IF S = {} THEN <<>>
    ELSE LET least == CHOOSE x \in S : \A y \in S : x <= y
         IN <<least>> \o InOrder(S \ {least})

ServiceDown == "ServiceDown"
ProviderStatus == {"Success", "AuthError"}

(* The manager's mutex is taken by a thread other than the manager for     *)
(* the length of one call, so it is free whenever the manager does not     *)
(* hold it.                                                                *)

(* ExternalAuthManagerThread::enqueueRequest: a task of the executor asks  *)
(* for an authentication.                                                  *)
enqueueRequest ==
    /\ ~mgr.locked
    /\ authLog.tasks < MaxAuth
    /\ incomingRequests' = Append(incomingRequests, authLog.tasks + 1)
    /\ authLog' = [authLog EXCEPT !.tasks = @ + 1]
    /\ UNCHANGED <<connVars, privCore, subdoc, sideVars, evVars, mgr,
                   incommingResponse, requestMap>>

(* The provider may answer while the manager knows it and its connection  *)
(* is not being closed; the answers it gives are counted up to one more    *)
(* than the requests.                                                      *)
MayAnswer ==
    /\ authState = "registered"
    /\ state \notin {"closing", "pending_close", "immediate_close",
                      "destroyed"}
    /\ Len(authLog.delivered) + Len(incommingResponse)
          + Len(mgr.responses) < MaxAuth + 1

(* The requests that were put to the provider. *)
Asked ==
    {server_events[i].id :
       i \in {j \in 1..Len(server_events) :
                server_events[j].kind = "Authenticate"}}

(* ExternalAuthManagerThread::responseReceived: the worker of the provider *)
(* read a response of the provider and queues it for the manager.  The     *)
(* provider answers a request that was put to it, once or more than once.  *)
responseReceived ==
    /\ ~mgr.locked
    /\ MayAnswer
    /\ \E opaque \in Asked, status \in ProviderStatus :
          incommingResponse' =
              Append(incommingResponse,
                     [opaque |-> opaque, status |-> status])
    /\ UNCHANGED <<connVars, privCore, subdoc, sideVars, evVars, mgr,
                   incomingRequests, requestMap, authLog>>

(* The same for a provider that sends whatever it likes. *)
responseReceived_any ==
    /\ ~mgr.locked
    /\ MayAnswer
    /\ \E opaque \in 0..MaxAuth, status \in ProviderStatus :
          incommingResponse' =
              Append(incommingResponse,
                     [opaque |-> opaque, status |-> status])
    /\ UNCHANGED <<connVars, privCore, subdoc, sideVars, evVars, mgr,
                   incomingRequests, requestMap, authLog>>

(* Another part of the server enqueues an event of its own, holding the    *)
(* worker's lock.                                                          *)
EnqueueOther ==
    /\ ~running
    /\ state # "destroyed"
    /\ authLog.others < MaxOther
    /\ server_events' =
          enqueueServerEvent(server_events,
                             [kind |-> "Other", id |-> 0,
                              seq |-> Len(evDone) + Len(server_events) + 1])
    /\ authLog' = [authLog EXCEPT !.others = @ + 1]
    /\ UNCHANGED <<connVars, privCore, subdoc, sideVars, evDone, evLast, mgr,
                   incomingRequests, incommingResponse, requestMap>>

(* ExternalAuthManagerThread::run: the wait on the condition variable ends *)
(* (it is a timed wait) and the manager has its mutex again.               *)
ExternalAuthManagerThread_run ==
    /\ mgr.pc = "wait"
    /\ mgr' = [mgr EXCEPT !.pc = "purge", !.locked = TRUE]
    /\ UNCHANGED <<connVars, privCore, subdoc, sideVars, evVars, incomingRequests,
                   incommingResponse, requestMap, authLog>>

(* The end of the body of run's loop: wait when both queues are empty.     *)
LoopEnd(m) ==
    IF incomingRequests = <<>> /\ incommingResponse = <<>>
    THEN [m EXCEPT !.pc = "wait", !.locked = FALSE]
    ELSE [m EXCEPT !.pc = "purge", !.locked = TRUE]

(* What the manager does to a connection under the lock of its worker:     *)
(* Connection::signalIfIdle.                                               *)
Signalled ==
    /\ notification' = (notification \/ signalIfIdle)
    /\ notifyPipe' = (notifyPipe \/ signalIfIdle)

(* The responses the manager makes up for the requests it cannot have      *)
(* answered: "service down", one for each number.  The variant before it   *)
(* makes none.                                                             *)
AuthResponse_none(opaques) == <<>>
AuthResponse(opaques) ==
    [i \in 1..Len(opaques) |-> [opaque |-> opaques[i], status |-> ServiceDown]]

(* purgePendingDeadConnections up to mutex.unlock(): every request that    *)
(* was sent to the dead provider gets a queued "service down" and loses    *)
(* its provider.                                                           *)
purge_requestMap ==
    /\ mgr.pc = "purge"
    /\ IF authState = "pendingRemove"
       THEN LET dead == {r \in requestMap : r.provider}
                opaques == InOrder({r.opaque : r \in dead})
            IN /\ incommingResponse' =
                     incommingResponse \o AuthResponse(opaques)
               /\ requestMap' =
                     (requestMap \ dead) \cup
                     {[r EXCEPT !.provider = FALSE] : r \in dead}
               /\ authState' = "purging"
               /\ mgr' = [mgr EXCEPT !.pc = "purge_release",
                                     !.locked = FALSE]
       ELSE /\ mgr' = [mgr EXCEPT !.pc = "requests"]
            /\ UNCHANGED <<incommingResponse, requestMap, authState>>
    /\ UNCHANGED <<privCore, subdoc, sideVars, yieldVars, evVars, incomingRequests, authLog,
                   connRest0, state>>

(* purgePendingDeadConnections from there: under the lock of the worker    *)
(* the manager gives up its reference and signals the connection; then it  *)
(* takes its mutex again.                                                  *)
purge_release ==
    /\ mgr.pc = "purge_release"
    /\ ~running
    /\ authState' = "removed"
    /\ refcount' = refcount - 1
    /\ Signalled
    /\ mgr' = [mgr EXCEPT !.pc = "requests", !.locked = TRUE]
    /\ UNCHANGED <<privCore, subdoc, sideVars, yieldVars, evVars, incomingRequests,
                   incommingResponse, requestMap, authLog, state, writeAndGo,
                   running, pipe, sockHalf, rbufHalf, hdr, cookie,
                   readEnabled, engOwed, pending_io, msglist, outbuf,
                   sendQueueInfo, sentVars, histVars>>

(* processRequestQueue up to mutex.unlock().  Without a provider every     *)
(* request is cancelled: it gets a number and a queued "service down".     *)
(* With one, every request gets a number and an event for the provider.    *)
(* The variant before it keeps the mutex.                                  *)
processRequestQueue_holding(m) == [m EXCEPT !.pc = "enqueue"]
processRequestQueue_unlock(m) ==
    [m EXCEPT !.pc = "enqueue", !.locked = FALSE]

processRequestQueue ==
    /\ mgr.pc = "requests"
    /\ LET n == Len(incomingRequests)
           provider == (authState = "registered")
           numbered == {[opaque |-> mgr.next + i - 1, provider |-> provider,
                         task |-> incomingRequests[i]] : i \in 1..n}
           m == [mgr EXCEPT !.next = @ + n]
       IN /\ requestMap' = requestMap \cup numbered
          /\ incomingRequests' = <<>>
          /\ authLog' = [authLog EXCEPT !.issued = @ \cup numbered]
          /\ IF n = 0
             THEN /\ mgr' = [m EXCEPT !.pc = "responses"]
                  /\ UNCHANGED incommingResponse
             ELSE IF ~provider
             THEN /\ mgr' = [m EXCEPT !.pc = "responses"]
                  /\ incommingResponse' =
                        incommingResponse \o
                        AuthResponse([i \in 1..n |-> mgr.next + i - 1])
             ELSE /\ mgr' = processRequestQueue_unlock(
                               [m EXCEPT !.events =
                                   [i \in 1..n |->
                                      [kind |-> "Authenticate",
                                       id |-> mgr.next + i - 1]]])
                  /\ UNCHANGED incommingResponse
    /\ UNCHANGED <<connVars, privCore, subdoc, sideVars, evVars>>

(* The events get their place in the queue of the connection. *)
RECURSIVE enqueueAll(_, _, _)
enqueueAll(q, events, done) ==
    IF events = <<>> THEN q
    ELSE enqueueAll(enqueueServerEvent(
                        q, [kind |-> events[1].kind, id |-> events[1].id,
                            seq |-> done + Len(q) + 1]),
                    Tail(events), done)

(* processRequestQueue from there: under the lock of the worker the events *)
(* move to the provider, which is signalled; the manager takes its mutex   *)
(* again.                                                                  *)
processRequestQueue_enqueue ==
    /\ mgr.pc = "enqueue"
    /\ ~running
    /\ server_events' = enqueueAll(server_events, mgr.events, Len(evDone))
    /\ Signalled
    /\ mgr' = [mgr EXCEPT !.pc = "responses", !.locked = TRUE,
                          !.events = <<>>]
    /\ UNCHANGED <<privCore, subdoc, sideVars, yieldVars, evDone, evLast, incomingRequests,
                   incommingResponse, requestMap, authLog, state, writeAndGo,
                   running, pipe, sockHalf, rbufHalf, hdr, cookie,
                   readEnabled, engOwed, pending_io, msglist, outbuf,
                   refcount, sendQueueInfo, authState, sentVars, histVars>>

(* processResponseQueue: the manager takes the queue of responses. *)
processResponseQueue ==
    /\ mgr.pc = "responses"
    /\ IF incommingResponse = <<>>
       THEN /\ mgr' = [mgr EXCEPT !.pc = "push"]
            /\ UNCHANGED incommingResponse
       ELSE /\ mgr' = [mgr EXCEPT !.pc = "find",
                                  !.responses = incommingResponse]
            /\ incommingResponse' = <<>>
    /\ UNCHANGED <<connVars, privCore, subdoc, sideVars, evVars, incomingRequests,
                   requestMap, authLog>>

(* After a response: the next one, or the end of the function. *)
Popped(m) ==
    [m EXCEPT !.responses = Tail(@), !.task = 0,
              !.pc = IF Tail(m.responses) = <<>> THEN "push" ELSE "find"]

(* requestMap.find *)
find(opaque) == {r \in requestMap : r.opaque = opaque}

(* requestMap.erase: the request leaves the map before the task is told.  *)
erase_kept(iter) == requestMap
erase(iter) == requestMap \ iter

(* processResponseQueue, one response up to mutex.unlock(): a response     *)
(* with an unknown number is dropped, the request of a known one leaves    *)
(* the map.                                                                *)
processResponseQueue_find ==
    /\ mgr.pc = "find"
    /\ LET iter == find(mgr.responses[1].opaque)
       IN IF iter = {}
          THEN /\ mgr' = Popped(mgr)
               /\ UNCHANGED requestMap
          ELSE /\ requestMap' = erase(iter)
               /\ mgr' = [mgr EXCEPT !.pc = "respond", !.locked = FALSE,
                                     !.task = (CHOOSE r \in iter : TRUE).task]
    /\ UNCHANGED <<connVars, privCore, subdoc, sideVars, evVars, incomingRequests,
                   incommingResponse, authLog>>

(* processResponseQueue from there: the task is told the status, and the   *)
(* manager takes its mutex again.                                          *)
processResponseQueue_respond ==
    /\ mgr.pc = "respond"
    /\ authLog' = [authLog EXCEPT !.delivered =
                      Append(@, [task |-> mgr.task,
                                 opaque |-> mgr.responses[1].opaque,
                                 status |-> mgr.responses[1].status])]
    /\ mgr' = [Popped(mgr) EXCEPT !.locked = TRUE]
    /\ UNCHANGED <<connVars, privCore, subdoc, sideVars, evVars, incomingRequests,
                   incommingResponse, requestMap>>

(* run's last step and pushActiveUsers up to mutex.unlock(): when it is    *)
(* time and there is a provider the list of users is to be pushed.         *)
pushActiveUsers ==
    /\ mgr.pc = "push"
    /\ \E due \in {FALSE} \cup {authLog.pushes < MaxPush} :
         IF due /\ authState = "registered"
         THEN /\ mgr' = [mgr EXCEPT !.pc = "push_enqueue", !.locked = FALSE]
              /\ authLog' = [authLog EXCEPT !.pushes = @ + 1]
         ELSE /\ mgr' = LoopEnd(mgr)
              /\ UNCHANGED authLog
    /\ UNCHANGED <<connVars, privCore, subdoc, sideVars, evVars, incomingRequests,
                   incommingResponse, requestMap>>

(* pushActiveUsers from there: under the lock of the worker the event is   *)
(* enqueued and the provider signalled; the manager takes its mutex again. *)
pushActiveUsers_enqueue ==
    /\ mgr.pc = "push_enqueue"
    /\ ~running
    /\ server_events' =
          enqueueAll(server_events,
                     <<[kind |-> "ActiveExternalUsers", id |-> 0]>>,
                     Len(evDone))
    /\ Signalled
    /\ mgr' = [LoopEnd(mgr) EXCEPT !.locked = TRUE]
    /\ UNCHANGED <<privCore, subdoc, sideVars, yieldVars, evDone, evLast, incomingRequests,
                   incommingResponse, requestMap, authLog, state, writeAndGo,
                   running, pipe, sockHalf, rbufHalf, hdr, cookie,
                   readEnabled, engOwed, pending_io, msglist, outbuf,
                   refcount, sendQueueInfo, authState, sentVars, histVars>>

(* The manager and its provider: a connection that registers, answers and *)
(* may be lost at any time.  The worker of the provider does nothing here  *)
(* but close the connection; what else it does keeps the manager waiting   *)
(* for its lock and does not touch what the manager works on.              *)
NextAuth ==
    \/ ExternalAuthManagerThread_add
    \/ enqueueRequest
    \/ responseReceived
    \/ ExternalAuthManagerThread_run
    \/ purge_requestMap
    \/ purge_release
    \/ processRequestQueue
    \/ processRequestQueue_enqueue
    \/ processResponseQueue
    \/ processResponseQueue_find
    \/ processResponseQueue_respond
    \/ pushActiveUsers
    \/ pushActiveUsers_enqueue
    \/ event_callback
    \/ conn_closing
    \/ conn_pending_close
    \/ conn_immediate_close

SpecAuth == InitBucket /\ [][NextAuth]_vars

(* The same with a provider that sends whatever it likes. *)
NextAuthAny ==
    \/ ExternalAuthManagerThread_add
    \/ enqueueRequest
    \/ responseReceived_any
    \/ ExternalAuthManagerThread_run
    \/ purge_requestMap
    \/ purge_release
    \/ processRequestQueue
    \/ processRequestQueue_enqueue
    \/ processResponseQueue
    \/ processResponseQueue_find
    \/ processResponseQueue_respond
    \/ pushActiveUsers
    \/ pushActiveUsers_enqueue
    \/ event_callback
    \/ conn_closing
    \/ conn_pending_close
    \/ conn_immediate_close

SpecAuthAny == InitBucket /\ [][NextAuthAny]_vars

(* What the code schedules itself: the manager goes on when it has its     *)
(* mutex, and its wait is a timed one; a manager that waits for the lock   *)
(* of the worker gets it, the worker giving it up after every callback;    *)
(* the worker goes on with the state machine.  Nothing is assumed of the   *)
(* provider, of its socket or of the tasks.                                *)
ManagerStep ==
    \/ ExternalAuthManagerThread_run
    \/ purge_requestMap
    \/ processRequestQueue
    \/ processResponseQueue
    \/ processResponseQueue_find
    \/ processResponseQueue_respond
    \/ pushActiveUsers
ManagerWorkerStep ==
    \/ purge_release
    \/ processRequestQueue_enqueue
    \/ pushActiveUsers_enqueue

SpecAuthFair ==
    /\ SpecAuth
    /\ WF_vars(ManagerStep)
    /\ SF_vars(ManagerWorkerStep)
    /\ WF_vars(conn_closing \/ conn_pending_close \/ conn_immediate_close)

(* The events of a connection: the manager and another part of the server  *)
(* enqueue them, the worker executes them when the connection waits for a  *)
(* command, and the socket takes what they send.                           *)
NextEvents ==
    \/ ExternalAuthManagerThread_add
    \/ enqueueRequest
    \/ EnqueueOther
    \/ ExternalAuthManagerThread_run
    \/ purge_requestMap
    \/ processRequestQueue
    \/ processRequestQueue_enqueue
    \/ processResponseQueue
    \/ pushActiveUsers
    \/ pushActiveUsers_enqueue
    \/ thread_libevent_process
    \/ write_callback
    \/ conn_new_cmd
    \/ conn_waiting
    \/ conn_read_packet_header
    \/ conn_send_data
    \/ conn_drain_send_buffer

SpecEvents == InitBucket /\ [][NextEvents]_vars

(* The send queue of a connection whose bucket is ready or, being created  *)
(* or deleted, is not: the steps of closing a connection, from either      *)
(* state of the bucket.                                                    *)
InitStuck ==
    /\ InitConnection
    /\ InitPrivilege
    /\ InitDaemon
    /\ bucketReady \in BOOLEAN
    /\ privDebug = FALSE
    /\ features \in [xerror : BOOLEAN, collections : {FALSE},
                     mode : {"ordered", "unordered", "dcp"}]

(* ----- the work budget of a connection ----- *)

(* Connection::setPriority: the budget becomes what the settings give the  *)
(* priority, a number the model draws.                                     *)
Priorities == {"High", "Medium", "Low"}
setPriority ==
    /\ \E priority \in Priorities, requests \in 1..MaxBudget :
         max_reqs_per_event' = requests
    /\ UNCHANGED <<connVars, privCore, subdoc, evVars, mgrVars, thr,
                   bucketReady, frame>>

(* Connection::maybeYield, called by a handler of the state machine: it    *)
(* yields when the budget it has decremented is below zero, and then has   *)
(* the callbacks of the socket triggered.  The variant before it yields    *)
(* when nothing is left of the budget.                                     *)
Yields_atZero(left) == left <= 0
Yields(left) == ~(left >= 0)
maybeYield ==
    /\ running
    /\ yielding.calls <= MaxBudget
    /\ numEvents' = numEvents - 1
    /\ yielding' = [yielding EXCEPT
                        !.calls = @ + 1,
                        !.ret = Yields(numEvents - 1),
                        !.trigger = (@ \/ Yields(numEvents - 1))]
    /\ UNCHANGED <<privVars, state, connRest1, authState, entryReqs>>

(* A connection that reads requests, a change of its priority at any       *)
(* moment, and handlers that call maybeYield.                              *)
NextYield ==
    \/ ClientSendPlain
    \/ ClientSendBody
    \/ read_callback
    \/ conn_new_cmd
    \/ conn_waiting
    \/ conn_read_packet_header
    \/ setPriority
    \/ maybeYield

SpecYield == Init /\ [][NextYield]_vars

(* ----- frames ----- *)

(* A connection that has received nothing and is concerned with its frames *)
(* alone.                                                                  *)
InitFrames ==
    /\ InitConnection
    /\ InitPrivilege
    /\ InitServer
    /\ bucketReady = TRUE
    /\ privDebug = FALSE
    /\ features = [xerror |-> FALSE, collections |-> FALSE,
                   mode |-> "ordered"]

(* Connection::isPacketAvailable for an input buffer of size bytes that    *)
(* begins with a header, valid or not, which declares a body of bodylen    *)
(* bytes.                                                                  *)
Connection_isPacketAvailable(size, valid, bodylen) ==
    IF size < HeaderSize THEN "false"
    ELSE IF ~valid THEN "throw"
    ELSE IF size >= HeaderSize + bodylen THEN "true"
    ELSE IF HeaderSize + bodylen > MaxPacketSize THEN "throw"
    ELSE "false"

(* The bodies a header declares: none, a byte, the first that makes the    *)
(* frame larger than the largest packet allowed, the first that is larger  *)
(* than it by itself.                                                      *)
Bodylens == {0, 1, MaxPacketSize - HeaderSize + 1, MaxPacketSize + 1}

(* The socket brings more bytes of the frame, at most one more than it has.*)
bufferevent_input ==
    /\ frame.kind = "input"
    /\ frame.result # "throw"
    /\ \E n \in 1..(HeaderSize + frame.bodylen + 1 - frame.size) :
         frame' = [frame EXCEPT !.size = @ + n, !.result = "none"]
    /\ UNCHANGED <<connVars, privCore, notFrame>>

(* A handler of the state machine asks whether a packet is available. *)
isPacketAvailable_call ==
    /\ frame.kind = "input"
    /\ frame.result = "none"
    /\ frame' = [frame EXCEPT !.result =
                    Connection_isPacketAvailable(frame.size, frame.valid,
                                                 frame.bodylen)]
    /\ UNCHANGED <<connVars, privCore, notFrame>>

NextPacket ==
    \/ bufferevent_input
    \/ isPacketAvailable_call

InitPacket ==
    /\ InitFrames
    /\ frame \in [kind : {"input"}, size : {0}, valid : BOOLEAN,
                  bodylen : Bodylens, result : {"none"}]

SpecPacket == InitPacket /\ [][NextPacket]_vars

(* ----- the producers of DCP messages ----- *)

(* The widths of the structures the producers lay out: the frame info of a *)
(* stream-id is a byte for its id and size and two for the id itself, the  *)
(* payloads are those of the opcodes.                                      *)
sizeof_DcpStreamIdFrameInfo == 3
sizeof_DcpMutationPayload == 31
sizeof_DcpDeletionV1Payload == 18
sizeof_DcpDeletionV2Payload == 21
sizeof_DcpExpirationPayload == 20

(* What the engine hands to a producer. *)
StreamIds == {0, 7}
KeyLens == {1, 2}
ValueLens == {0, 1, 2}
MetaLens == {0, 1}

(* The most writes to the output stream a producer makes: mutation writes  *)
(* the header, the frame info, the extras, the key, the value, the meta.   *)
MaxWrites == 6

(* The producers that build their whole packet in one buffer and hand it   *)
(* to add_packet_to_send_pipe.                                             *)
PacketProducers == {"get_failover_log", "stream_req", "add_stream_rsp",
                    "marker_rsp", "set_vbucket_state_rsp", "stream_end",
                    "marker", "set_vbucket_state", "noop",
                    "buffer_acknowledgement", "control", "system_event",
                    "get_error_map", "seqno_acknowledged", "commit", "abort"}

(* Byte i of a structure; x is the stream-id in a frame info. *)
Byte(seg, x, i) == [seg |-> seg, x |-> x, i |-> i]
Field(seg, x, n) == [i \in 1..n |-> Byte(seg, x, i)]

(* Assigning a structure through a pointer off bytes into a blob. *)
memcpy(blob, off, data) ==
    [i \in 1..Len(blob) |->
        IF off < i /\ i <= off + Len(data) THEN data[i - off] ELSE blob[i]]

(* The header a producer fills in. *)
Request(magic, opcode, extlen, keylen, bodylen, fxlen) ==
    [magic |-> magic, opcode |-> opcode, extlen |-> extlen,
     keylen |-> keylen, bodylen |-> bodylen, framing_extraslen |-> fxlen]

Magic(sid) == IF sid # 0 THEN "AltClientRequest" ELSE "ClientRequest"
FrameInfoLen(sid) == IF sid # 0 THEN sizeof_DcpStreamIdFrameInfo ELSE 0

(* A write to the output stream: copyToOutputStream, or for chain the      *)
(* chainDataToOutputStream of a send buffer.  hdr says that the bytes      *)
(* begin with the header.                                                  *)
Write(head, data, chain) ==
    [hdr |-> head, data |-> data, chain |-> chain]

RECURSIVE Concat(_, _)
Concat(ws, n) == IF n = 0 THEN <<>> ELSE Concat(ws, n - 1) \o ws[n].data

(* Connection::chainDataToOutputStream gives up the buffer once libevent   *)
(* holds the reference; the variant gives it up before it knows.           *)
SendBufferOwner_always(attached) == "evbuffer"
SendBufferOwner(attached) == IF attached THEN "evbuffer" ELSE "sendbuffer"

(* Connection::add_packet_to_send_pipe when the copy throws. *)
add_packet_to_send_pipe_disconnect == "Disconnect"
add_packet_to_send_pipe == "E2big"

(* The writes of a producer in their order, the failAt-th of those that    *)
(* have bytes failing to allocate (none for 0 or past the last): a write   *)
(* without bytes returns before it reaches libevent.  The item belongs to  *)
(* the producer's argument until a send buffer is made of it, and what     *)
(* still owns it when the producer returns releases it then.               *)
Produce(name, sid, req, writes, failAt, onFail, hasItem) ==
    LET ws == SelectSeq(writes, LAMBDA w : w.hdr \/ w.data # <<>>)
        n == Len(ws)
        failed == failAt \in 1..n
        done == IF failed THEN failAt - 1 ELSE n
        chainAt == IF \E i \in 1..n : ws[i].chain
                   THEN CHOOSE i \in 1..n : ws[i].chain ELSE 0
        attached == chainAt # 0 /\ chainAt <= done
        reached == chainAt # 0 /\ (attached \/ failAt = chainAt)
        owner == IF ~hasItem THEN "none"
                 ELSE IF reached THEN SendBufferOwner(attached) ELSE "it"
    IN [kind |-> "output", producer |-> name, sid |-> sid, req |-> req,
        hdrSent |-> \E i \in 1..done : ws[i].hdr,
        out |-> Concat(ws, done), failed |-> failed,
        ret |-> IF failed THEN onFail ELSE "Success",
        hasItem |-> hasItem, attached |-> attached,
        holder |-> IF owner = "evbuffer" THEN "evbuffer" ELSE "none",
        released |-> IF owner \in {"it", "sendbuffer"} THEN 1 ELSE 0]

(* bucket_get_item_info fails: nothing is written, the argument is         *)
(* destroyed.                                                              *)
NoItemInfo(name, sid) ==
    [Produce(name, sid, Request("none", name, 0, 0, 0, 0), <<>>, 0,
             "Failed", TRUE) EXCEPT !.ret = "Failed"]

IdleOutput == [kind |-> "output", producer |-> "none"]

(* Connection::mutation *)
Connection_mutation ==
    /\ frame = IdleOutput
    /\ \E sid \in StreamIds, keylen \in KeyLens, vlen \in ValueLens,
          nmeta \in MetaLens, info_ok \in BOOLEAN, failAt \in 0..MaxWrites :
         LET req == Request(Magic(sid), "DcpMutation",
                            sizeof_DcpMutationPayload, keylen,
                            sizeof_DcpMutationPayload + keylen + nmeta
                                + vlen + FrameInfoLen(sid),
                            FrameInfoLen(sid))
             writes ==
                 <<Write(TRUE, <<>>, FALSE),
                   Write(FALSE, Field("DcpStreamId", sid,
                                      FrameInfoLen(sid)), FALSE),
                   Write(FALSE, Field("DcpMutationPayload", 0,
                                      sizeof_DcpMutationPayload), FALSE),
                   Write(FALSE, Field("key", 0, keylen), FALSE),
                   Write(FALSE, Field("value", 0, vlen), TRUE),
                   Write(FALSE, Field("meta", 0, nmeta), FALSE)>>
         IN frame' = IF ~info_ok THEN NoItemInfo("mutation", sid)
                     ELSE Produce("mutation", sid, req, writes, failAt,
                                  "Disconnect", TRUE)
    /\ UNCHANGED <<connVars, privCore, notFrame>>

(* Connection::deletionInner: the packet, the key, the value and the       *)
(* extended meta are copied.                                               *)
deletionInner(name, sid, req, packet, keylen, nbytes, nmeta, failAt) ==
    Produce(name, sid, req,
            <<Write(TRUE, packet, FALSE),
              Write(FALSE, Field("key", 0, keylen), FALSE),
              Write(FALSE, Field("value", 0, nbytes), FALSE),
              Write(FALSE, Field("meta", 0, nmeta), FALSE)>>,
            failAt, "Disconnect", TRUE)

(* Connection::deletion: the blob is not initialised, the frame info is    *)
(* stored behind the header and the payload is stored behind the header    *)
(* too, stream-id or not; the packet is as long as the three together.     *)
(* What a byte that was never written holds is not defined.                *)
Connection_deletion ==
    /\ frame = IdleOutput
    /\ \E sid \in StreamIds, keylen \in KeyLens, nbytes \in ValueLens,
          nmeta \in MetaLens, info_ok \in BOOLEAN, failAt \in 0..MaxWrites,
          stale \in {"zero", "stale"} :
         LET req == Request(Magic(sid), "DcpDeletion",
                            sizeof_DcpDeletionV1Payload, keylen,
                            sizeof_DcpDeletionV1Payload + keylen + nmeta
                                + nbytes + FrameInfoLen(sid),
                            FrameInfoLen(sid))
             blob0 == Field(stale, 0, sizeof_DcpDeletionV1Payload
                                        + sizeof_DcpStreamIdFrameInfo)
             blob1 == memcpy(blob0, 0,
                             Field("DcpStreamId", sid, FrameInfoLen(sid)))
             blob2 == memcpy(blob1, 0,
                             Field("DcpDeletionV1Payload", 0,
                                   sizeof_DcpDeletionV1Payload))
             packet == SubSeq(blob2, 1, sizeof_DcpDeletionV1Payload
                                          + FrameInfoLen(sid))
         IN frame' = IF ~info_ok \/ features.collections
                     THEN NoItemInfo("deletion", sid)
                     ELSE deletionInner("deletion", sid, req, packet,
                                        keylen, nbytes, nmeta, failAt)
    /\ UNCHANGED <<connVars, privCore, notFrame>>

(* Connection::deletionOrExpirationV2 for deletion_v2 and expiration: the  *)
(* blob is zeroed, the payload is stored behind the frame info.            *)
Connection_deletionOrExpirationV2 ==
    /\ frame = IdleOutput
    /\ \E explicit \in BOOLEAN, sid \in StreamIds, keylen \in KeyLens,
          nbytes \in ValueLens, info_ok \in BOOLEAN,
          failAt \in 0..MaxWrites :
         LET name == IF explicit THEN "deletion_v2" ELSE "expiration"
             payload == IF explicit THEN "DcpDeletionV2Payload"
                        ELSE "DcpExpirationPayload"
             payloadLen == IF explicit THEN sizeof_DcpDeletionV2Payload
                           ELSE sizeof_DcpExpirationPayload
             req == Request(Magic(sid),
                            IF explicit THEN "DcpDeletion"
                            ELSE "DcpExpiration",
                            payloadLen, keylen,
                            payloadLen + keylen + nbytes
                                + FrameInfoLen(sid),
                            FrameInfoLen(sid))
             blob0 == Field("zero", 0, sizeof_DcpDeletionV2Payload
                                         + sizeof_DcpStreamIdFrameInfo)
             blob1 == memcpy(blob0, 0,
                             Field("DcpStreamId", sid, FrameInfoLen(sid)))
             blob2 == memcpy(blob1, FrameInfoLen(sid),
                             Field(payload, 0, payloadLen))
             packet == SubSeq(blob2, 1, FrameInfoLen(sid) + payloadLen)
         IN frame' = IF ~info_ok THEN NoItemInfo(name, sid)
                     ELSE deletionInner(name, sid, req, packet, keylen,
                                        nbytes, 0, failAt)
    /\ UNCHANGED <<connVars, privCore, notFrame>>

(* The producers of one packet: the packet is copied to the output stream  *)
(* whole or not at all.                                                    *)
add_packet_to_send_pipe_call ==
    /\ frame = IdleOutput
    /\ \E name \in PacketProducers, failAt \in 0..1 :
         frame' = Produce(name, 0,
                          Request("ClientRequest", name, 0, 0, 0, 0),
                          <<Write(TRUE, <<>>, FALSE)>>, failAt,
                          add_packet_to_send_pipe, FALSE)
    /\ UNCHANGED <<connVars, privCore, notFrame>>

(* sendbuffer_cleanup_cb: libevent has sent the bytes it held a reference  *)
(* to, or the output stream is freed with the connection; the send buffer  *)
(* is deleted and releases the item.                                       *)
sendbuffer_cleanup_cb ==
    /\ frame.kind = "output"
    /\ frame.producer # "none"
    /\ frame.attached
    /\ frame.holder = "evbuffer"
    /\ frame' = [frame EXCEPT !.holder = "none", !.released = @ + 1]
    /\ UNCHANGED <<connVars, privCore, notFrame>>

NextProducer ==
    \/ Connection_mutation
    \/ Connection_deletion
    \/ Connection_deletionOrExpirationV2
    \/ add_packet_to_send_pipe_call
    \/ sendbuffer_cleanup_cb

InitProducer ==
    /\ InitFrames
    /\ frame = IdleOutput

SpecProducer == InitProducer /\ [][NextProducer]_vars

(* ----- the framing extras of a request ----- *)

(* The frame infos a client encodes: the ids that fit the nibble and one   *)
(* that does not, payloads that fit the nibble and one that does not.      *)
FrameInfoIds == {0, 2, 16}
PayloadLens == {0, 1, 2, 15}
FrameInfos == [id : FrameInfoIds, payload : {[i \in 1..n |-> 17] : n \in PayloadLens}]

(* encodeFrameInfo: the id in the high nibble or 0xf and a byte of its     *)
(* own, the size in the low nibble or 0xf and a byte of its own, then the  *)
(* payload.                                                                *)
encodeFrameInfo(id, payload) ==
    LET size == Len(payload)
        hi == IF id < 15 THEN id * 16 ELSE 240
        lo == IF size < 15 THEN size ELSE 15
    IN <<hi + lo>>
         \o (IF id < 15 THEN <<>> ELSE <<id - 15>>)
         \o (IF size < 15 THEN <<>> ELSE <<size - 15>>)
         \o payload

RECURSIVE encodeFrameInfos(_)
encodeFrameInfos(items) ==
    IF items = <<>> THEN <<>>
    ELSE encodeFrameInfo(Head(items).id, Head(items).payload)
            \o encodeFrameInfos(Tail(items))

(* The byte at an offset of the body: behind the framing extras lie the    *)
(* extras and the key of the request.                                      *)
BodyByte(section, i) == IF i <= Len(section) THEN section[i] ELSE 255

(* Whether count bytes from offset on run past a section of size bytes;    *)
(* the variant never looks.                                                *)
Overflows_unchecked(offset, count, size) == FALSE
Overflows(offset, count, size) == offset + count > size

(* Request::parseFrameExtras from offset on: the nibbles of the first      *)
(* byte, the bytes that continue them, the payload; every item goes to the *)
(* callback.  read is the last byte of the body it has looked at.          *)
RECURSIVE parseFrameExtras(_, _, _, _)
parseFrameExtras(section, offset, items, read) ==
    LET size == Len(section)
        tag == BodyByte(section, offset + 1)
        idEsc == (tag \div 16) = 15
        lenEsc == (tag % 16) = 15
        idAt == offset + 1
        lenAt == idAt + (IF idEsc THEN 1 ELSE 0)
        dataAt == lenAt + (IF lenEsc THEN 1 ELSE 0)
        id == IF idEsc THEN BodyByte(section, idAt + 1) + 15
              ELSE tag \div 16
        count == IF lenEsc THEN BodyByte(section, lenAt + 1) + 15
                 ELSE tag % 16
        last == IF count > 0 THEN dataAt + count ELSE dataAt
        data == [i \in 1..count |-> BodyByte(section, dataAt + i)]
    IN IF offset >= size
       THEN [status |-> "Success", decoded |-> items, read |-> read]
       ELSE IF Overflows(offset, dataAt - offset, size)
       THEN [status |-> "Einval", decoded |-> items, read |-> offset + 1]
       ELSE IF Overflows(dataAt, count, size)
       THEN [status |-> "Einval", decoded |-> items, read |-> dataAt]
       ELSE parseFrameExtras(section, last,
                             Append(items, [id |-> id, payload |-> data]),
                             last)

(* The validator walks the framing extras of the request it was given. *)
parseFrameExtras_call ==
    /\ frame.kind = "extras"
    /\ frame.status = "none"
    /\ LET r == parseFrameExtras(frame.section, 0, <<>>, 0)
       IN frame' = [frame EXCEPT !.status = r.status,
                                 !.decoded = r.decoded, !.read = r.read]
    /\ UNCHANGED <<connVars, privCore, notFrame>>

(* A request arrives whose framing extras are the encoding of some frame   *)
(* infos, whole or with the last bytes of the last payload missing.        *)
InitExtras ==
    /\ InitFrames
    /\ \E n \in 1..MaxFrameInfos :
         \E items \in [1..n -> FrameInfos] :
           \E cut \in 0..Len(items[n].payload) :
             LET whole == encodeFrameInfos(items)
             IN frame = [kind |-> "extras", items |-> items, cut |-> cut,
                         section |-> SubSeq(whole, 1, Len(whole) - cut),
                         status |-> "none", decoded |-> <<>>, read |-> 0]

SpecExtras == InitExtras /\ [][parseFrameExtras_call]_vars

(* ----- the scheduling times of a connection ----- *)

(* The samples the worker measures, in nanoseconds. *)
CpuSamples == {1, 2, 3}

(* std::chrono::nanoseconds::max() and ::min(), the values the extremes    *)
(* start at, as the largest and smallest integers there are here.          *)
nanoseconds_max == 2147483647
nanoseconds_min == -nanoseconds_max

std_min(a, b) == IF b < a THEN b ELSE a
std_max(a, b) == IF a < b THEN b ELSE a

(* Connection::addCpuTime *)
addCpuTime ==
    /\ frame.kind = "cpu"
    /\ Len(frame.samples) < MaxSamples
    /\ \E ns \in CpuSamples :
         LET min_sched_time == std_min(frame.min_sched_time, ns)
         IN frame' = [frame EXCEPT
                         !.samples = Append(@, ns),
                         !.total_cpu_time = @ + ns,
                         !.min_sched_time = min_sched_time,
                         !.max_sched_time = std_max(min_sched_time, ns)]
    /\ UNCHANGED <<connVars, privCore, notFrame>>

InitCpu ==
    /\ InitFrames
    /\ frame = [kind |-> "cpu", samples |-> <<>>, total_cpu_time |-> 0,
                min_sched_time |-> nanoseconds_max,
                max_sched_time |-> nanoseconds_min]

SpecCpu == InitCpu /\ [][addCpuTime]_vars

(* ----- the durability monitor, as its tests drive it ----- *)

(* The seqnos of the SyncWrites that are added, in rising order, and the   *)
(* seqnos a replica acknowledges.                                          *)
Seqnos == 1..MaxSeqno
AckSeqnos == 0..(MaxSeqno + 1)

SetMax(S) == CHOOSE x \in S : \A y \in S : y <= x
SetMin(S) == CHOOSE x \in S : \A y \in S : x <= y

(* Whether an acknowledgement of memSeqno covers a tracked SyncWrite; the  *)
(* variant covers the one of that very seqno only.                         *)
Acked_exact(seqno, memSeqno) == seqno = memSeqno
Acked(seqno, memSeqno) == seqno <= memSeqno

(* DurabilityMonitorTest::addSyncWrite: one more SyncWrite is tracked. *)
addSyncWrite ==
    /\ frame.kind = "monitor"
    /\ \E seqno \in Seqnos :
         /\ seqno > frame.highSeqno
         /\ frame' = [frame EXCEPT !.op = "add", !.error = "none",
                                   !.tracked = @ \cup {seqno},
                                   !.highSeqno = seqno]
    /\ UNCHANGED <<connVars, privCore, notFrame>>

(* DurabilityMonitor::seqnoAckReceived as the tests expect it: a logic     *)
(* error when nothing is tracked or when the seqno is behind the replica;  *)
(* else the SyncWrites the acknowledgement covers are committed and        *)
(* removed, the replica's seqno is that of the last of them and its        *)
(* acknowledged seqno is memSeqno.  The tests leave open whether a seqno   *)
(* between the replica's and the first tracked one is an error.            *)
seqnoAckReceived ==
    /\ frame.kind = "monitor"
    /\ \E memSeqno \in AckSeqnos, strict \in BOOLEAN :
         LET covered == {x \in frame.tracked : Acked(x, memSeqno)}
             behind == \/ memSeqno < frame.memorySeqno
                       \/ strict /\ covered = {}
             called == [frame EXCEPT !.op = "ack", !.ack = memSeqno,
                                     !.before = frame.tracked]
         IN frame' =
              IF frame.tracked = {}
              THEN [called EXCEPT !.error = "No tracked SyncWrite"]
              ELSE IF behind
              THEN [called EXCEPT !.error =
                                    "Ack'ed seqno is behind pending seqno"]
              ELSE [called EXCEPT
                      !.error = "none",
                      !.tracked = @ \ covered,
                      !.committed = @ \cup covered,
                      !.memorySeqno = IF covered = {} THEN @
                                      ELSE SetMax(covered),
                      !.memoryAckSeqno = memSeqno]
    /\ UNCHANGED <<connVars, privCore, notFrame>>

NextMonitor ==
    \/ addSyncWrite
    \/ seqnoAckReceived

InitMonitor ==
    /\ InitFrames
    /\ frame = [kind |-> "monitor", op |-> "none", error |-> "none",
                tracked |-> {}, committed |-> {}, highSeqno |-> 0,
                memorySeqno |-> 0, memoryAckSeqno |-> 0, ack |-> 0,
                before |-> {}]

SpecMonitor == InitMonitor /\ [][NextMonitor]_vars

(* ----- a subdocument mutation of several paths ----- *)

(* The paths of a request: those of the extended attributes come first,    *)
(* and whether the operation of a path succeeds on the document is a       *)
(* matter of the document.                                                 *)
PathSpecs == [xattr : BOOLEAN, ok : BOOLEAN]
XattrFirst(ops) ==
    \A i, j \in 1..Len(ops) : (i < j /\ ops[j].xattr) => ops[i].xattr
PhaseOps(ops, xattr) == {i \in 1..Len(ops) : ops[i].xattr = xattr}

(* operate_single_doc for a mutation of several paths: the operations of   *)
(* the phase in their order, each on the document the one before left;     *)
(* the first that fails sets the overall status and stops the phase.       *)
operate_single_doc(ops, phase) ==
    LET failing == {i \in phase : ~ops[i].ok}
        stop == IF failing = {} THEN 0 ELSE SetMin(failing)
        done == {i \in phase : stop = 0 \/ i < stop}
    IN [applied |-> done, modified |-> done # {},
        failed |-> stop # 0,
        status |-> [i \in phase |->
                        IF i \in done THEN "Success"
                        ELSE IF i = stop THEN "SubdocPathEnoent"
                        ELSE "none"]]

(* subdoc_operate: the phase of the extended attributes, whose changes get *)
(* into the document of the context when the phase has not failed, then    *)
(* the phase of the body, whose changes get into it when there are any.    *)
subdoc_operate ==
    /\ frame.kind = "multi"
    /\ frame.pc = "operate"
    /\ \E access \in {"Success", "Eaccess"} :
         LET xs == PhaseOps(frame.ops, TRUE)
             bs == PhaseOps(frame.ops, FALSE)
             refused == xs # {} /\ access # "Success"
             x == IF refused
                  THEN [applied |-> {}, modified |-> FALSE, failed |-> TRUE,
                        status |-> [i \in xs |-> access]]
                  ELSE operate_single_doc(frame.ops, xs)
             b == operate_single_doc(frame.ops, bs)
             in_doc == (IF x.failed THEN {} ELSE x.applied) \cup b.applied
         IN frame' = [frame EXCEPT
                         !.pc = "update",
                         !.overall_status =
                             IF x.failed \/ b.failed
                             THEN "SubdocMultiPathFailure" ELSE "Success",
                         !.status = [i \in 1..Len(frame.ops) |->
                                        IF i \in xs THEN x.status[i]
                                        ELSE b.status[i]],
                         !.in_doc = in_doc]
    /\ UNCHANGED <<connVars, privCore, notFrame>>

(* Whether subdoc_update goes on to the engine; the variant does whatever  *)
(* the overall status.                                                     *)
UpdatesEngine_always(overall_status) == TRUE
UpdatesEngine(overall_status) == overall_status = "Success"

(* subdoc_update of a mutation and the response: the document of the       *)
(* context is stored with the CAS it was read with, and the engine stores  *)
(* it or refuses.                                                          *)
subdoc_update_multi ==
    /\ frame.kind = "multi"
    /\ frame.pc = "update"
    /\ \E store \in {"Success", "KeyEexists", "Tmpfail"} :
         IF ~UpdatesEngine(frame.overall_status)
         THEN frame' = [frame EXCEPT !.pc = "done",
                                     !.response = frame.overall_status]
         ELSE frame' = [frame EXCEPT
                           !.pc = "done",
                           !.stores = @ + 1,
                           !.engine_doc = IF store = "Success"
                                          THEN frame.in_doc ELSE @,
                           !.response = store]
    /\ UNCHANGED <<connVars, privCore, notFrame>>

NextMulti ==
    \/ subdoc_operate
    \/ subdoc_update_multi

(* A request of up to MaxPaths paths has been fetched; the document in the *)
(* engine has none of the changes.                                         *)
InitMulti ==
    /\ InitFrames
    /\ \E n \in 1..MaxPaths :
         \E ops \in [1..n -> PathSpecs] :
           /\ XattrFirst(ops)
           /\ frame = [kind |-> "multi", pc |-> "operate", ops |-> ops,
                       overall_status |-> "Success",
                       status |-> [i \in 1..n |-> "none"],
                       in_doc |-> {}, engine_doc |-> {}, stores |-> 0,
                       response |-> "none"]

SpecMulti == InitMulti /\ [][NextMulti]_vars

(* ----- the send queue, byte by byte ----- *)

(* libevent writes bytes of the output buffer to the socket; the write     *)
(* callback is for the buffer that has become empty, so the connection     *)
(* does not run for bytes that leave a buffer which holds more.  sent      *)
(* counts the bytes that left since sendQueueInfo.last.                    *)
bufferevent_output ==
    /\ frame.kind = "sendq"
    /\ ~sendQueueInfo.term
    /\ \E n \in 1..frame.size :
         frame' = [frame EXCEPT !.size = @ - n,
                                !.sent = IF @ + n > MaxSendQueue
                                         THEN MaxSendQueue ELSE @ + n]
    /\ UNCHANGED <<connVars, privCore, notFrame>>

(* Connection::runStateMachinery: the check for a stuck send queue on the  *)
(* size of the output buffer as it is now, then the state machine, which   *)
(* may add bytes to the buffer.                                            *)
runStateMachinery ==
    /\ frame.kind = "sendq"
    /\ ~sendQueueInfo.term
    /\ LET check == StuckCheck(state, frame.size)
           restarted == frame.size # 0 /\ sendQueueInfo.size # frame.size
       IN /\ state' = check.state
          /\ sendQueueInfo' = check.info
          /\ \E queued \in 0..(MaxSendQueue - frame.size) :
               frame' = [frame EXCEPT
                            !.size = IF check.info.term THEN @
                                     ELSE @ + queued,
                            !.sent = IF restarted THEN 0 ELSE @]
    /\ UNCHANGED <<privCore, notFrame, yieldVars, writeAndGo, running, pipe,
                   sockHalf, rbufHalf, hdr, cookie, readEnabled, engOwed,
                   pending_io, notifyPipe, msglist, outbuf, refcount,
                   notification, authState, sentVars, histVars>>

NextSendQueue ==
    \/ bufferevent_output
    \/ runStateMachinery
    \/ Tick

InitSendQueue ==
    /\ InitFrames
    /\ frame = [kind |-> "sendq", size |-> 0, sent |-> 0]

SpecSendQueue == InitSendQueue /\ [][NextSendQueue]_vars

(* ----- the mutexes of the external authentication ----- *)

(* The manager's mutex, the mutex of the worker thread that serves the     *)
(* provider, and the mutex of a task; the manager thread, that worker and  *)
(* the executor thread that runs the task.  owner is who holds a mutex,    *)
(* order has a pair <<a, b>> for every b that was locked by a thread       *)
(* holding a.                                                              *)
Mutexes == {"manager", "worker", "task"}
LockThreads == {"auth", "worker", "executor"}

Holds(t) == {l \in Mutexes : frame.owner[l] = t}

(* std::mutex::lock and unlock by thread t, which goes on at position to. *)
Acquire(t, l, to) ==
    /\ frame.owner[l] = "none"
    /\ frame' = [frame EXCEPT !.owner[l] = t, !.pc[t] = to,
                              !.order = @ \cup {<<h, l>> : h \in Holds(t)}]
Release(t, l, to) ==
    frame' = [frame EXCEPT !.owner[l] = "none", !.pc[t] = to]

(* mutex.unlock() of the manager before it takes the mutex of a worker or  *)
(* calls the task.  The variant before it keeps the mutex.                 *)
mutex_kept(owner) == owner
mutex_unlock(owner) == [owner EXCEPT !["manager"] = "none"]

(* ExternalAuthManagerThread::run: the manager takes its mutex, at the     *)
(* start, after the wait on the condition variable, and after each part    *)
(* that it ran without the mutex.                                          *)
manager_lock ==
    /\ frame.kind = "locks"
    /\ frame.pc["auth"] \in {"start", "relock"}
    /\ Acquire("auth", "manager", "loop")
    /\ UNCHANGED <<connVars, privCore, notFrame>>

(* The manager gives up its mutex: to wait on the condition variable, to   *)
(* enqueue an event or release a reference under the mutex of the worker   *)
(* (purgePendingDeadConnections, processRequestQueue, pushActiveUsers),    *)
(* or to tell a task its response (processResponseQueue).                  *)
manager_unlock ==
    /\ frame.kind = "locks"
    /\ frame.pc["auth"] = "loop"
    /\ \E to \in {"start", "worker", "task"} :
         frame' = [frame EXCEPT
                      !.owner = IF to = "start"
                                THEN [@ EXCEPT !["manager"] = "none"]
                                ELSE mutex_unlock(@),
                      !.pc["auth"] = to]
    /\ UNCHANGED <<connVars, privCore, notFrame>>

(* std::lock_guard guard(provider->getThread().mutex), and the call of     *)
(* task->externalAuthResponse, which waits for the mutex of the task.      *)
manager_guard ==
    /\ frame.kind = "locks"
    /\ \/ /\ frame.pc["auth"] = "worker"
          /\ Acquire("auth", "worker", "guarded")
       \/ /\ frame.pc["auth"] = "task"
          /\ Acquire("auth", "task", "told")
    /\ UNCHANGED <<connVars, privCore, notFrame>>

(* The end of the guarded block or of the call, before mutex.lock(). *)
manager_release ==
    /\ frame.kind = "locks"
    /\ \/ /\ frame.pc["auth"] = "guarded"
          /\ Release("auth", "worker",
                     IF frame.owner["manager"] = "auth" THEN "loop"
                     ELSE "relock")
       \/ /\ frame.pc["auth"] = "told"
          /\ Release("auth", "task",
                     IF frame.owner["manager"] = "auth" THEN "loop"
                     ELSE "relock")
    /\ UNCHANGED <<connVars, privCore, notFrame>>

(* The worker thread runs a callback of a connection under its mutex; in   *)
(* it the connection may call add, remove, responseReceived, login or      *)
(* logoff, each of which is std::lock_guard guard(mutex) for its length.   *)
worker_callback ==
    /\ frame.kind = "locks"
    /\ frame.pc["worker"] = "idle"
    /\ \E to \in {"call", "return"} : Acquire("worker", "worker", to)
    /\ UNCHANGED <<connVars, privCore, notFrame>>

worker_call ==
    /\ frame.kind = "locks"
    /\ frame.pc["worker"] = "call"
    /\ Acquire("worker", "manager", "inside")
    /\ UNCHANGED <<connVars, privCore, notFrame>>

worker_return ==
    /\ frame.kind = "locks"
    /\ \/ /\ frame.pc["worker"] = "inside"
          /\ \E to \in {"call", "return"} : Release("worker", "manager", to)
       \/ /\ frame.pc["worker"] = "return"
          /\ Release("worker", "worker", "idle")
    /\ UNCHANGED <<connVars, privCore, notFrame>>

(* The executor runs the task with the mutex of the task held, and the     *)
(* task calls enqueueRequest: request.getMutex().unlock(), the guard on    *)
(* the manager's mutex, request.getMutex().lock(), and the return, after   *)
(* which the executor gives up the mutex of the task.                      *)
executor_run ==
    /\ frame.kind = "locks"
    /\ frame.pc["executor"] = "idle"
    /\ Acquire("executor", "task", "run")
    /\ UNCHANGED <<connVars, privCore, notFrame>>

enqueueRequest_locks ==
    /\ frame.kind = "locks"
    /\ \/ /\ frame.pc["executor"] = "run"
          /\ Release("executor", "task", "unlocked")
       \/ /\ frame.pc["executor"] = "unlocked"
          /\ Acquire("executor", "manager", "guard")
       \/ /\ frame.pc["executor"] = "guard"
          /\ Acquire("executor", "task", "queued")
       \/ /\ frame.pc["executor"] = "queued"
          /\ Release("executor", "manager", "returned")
       \/ /\ frame.pc["executor"] = "returned"
          /\ Release("executor", "task", "idle")
    /\ UNCHANGED <<connVars, privCore, notFrame>>

NextLocks ==
    \/ manager_lock
    \/ manager_unlock
    \/ manager_guard
    \/ manager_release
    \/ worker_callback
    \/ worker_call
    \/ worker_return
    \/ executor_run
    \/ enqueueRequest_locks

InitLocks ==
    /\ InitFrames
    /\ frame = [kind |-> "locks",
                pc |-> [auth |-> "start", worker |-> "idle",
                        executor |-> "idle"],
                owner |-> [manager |-> "none", worker |-> "none",
                           task |-> "none"],
                order |-> {}]

SpecLocks == InitLocks /\ [][NextLocks]_vars

(* ----- a worker and the threads that notify it ----- *)

(* The connections the listening thread hands to the worker.  The threads  *)
(* that write the worker's pipe are the listening thread, 0, and for every *)
(* connection an engine thread of the same number.                         *)
WakeConns == {1, 2}
Notifiers == {0} \cup WakeConns

(* thread_libevent_process in the order of its code: drain the pipe, pop   *)
(* the queue of new connections, take the pending-io list.  The order      *)
(* before it drains the pipe when the work is done.                        *)
thread_libevent_process_late == <<"dispatch", "pending", "drain">>
thread_libevent_process_steps == <<"drain", "dispatch", "pending">>
WorkerAt(name) ==
    /\ thr.step > 0
    /\ thread_libevent_process_steps[thr.step] = name
StepDone ==
    IF thr.step = Len(thread_libevent_process_steps) THEN 0 ELSE thr.step + 1

(* dispatch_conn_new up to notify_thread: the listening thread pushes the  *)
(* connection on the worker's queue.                                       *)
dispatch_conn_new ==
    /\ thr.dispatched < Cardinality(WakeConns)
    /\ 0 \notin thr.notify
    /\ thr' = [thr EXCEPT !.new_conn_queue = Append(@, thr.dispatched + 1),
                          !.dispatched = @ + 1,
                          !.notify = @ \cup {0}]
    /\ UNCHANGED <<connVars, privCore, subdoc, evVars, mgrVars, bucketReady,
                   yieldSide, frame>>

(* notify_io_complete's locked block with add_conn_to_pending_io_list: the *)
(* connection is enlisted unless it is on the list, and the pipe is to be  *)
(* written only when the list was empty.                                   *)
add_conn_to_pending_io_list ==
    /\ thr.notified < MaxNotify
    /\ ~WorkerAt("pending")
    /\ \E c \in thr.conns \ thr.notify :
         LET pending == \E i \in 1..Len(thr.pending_io) : thr.pending_io[i] = c
             notify == ~pending /\ thr.pending_io = <<>>
         IN thr' = [thr EXCEPT
                !.pending_io = IF pending THEN @ ELSE <<c>> \o @,
                !.notify = IF notify THEN @ \cup {c} ELSE @,
                !.quiet = IF ~pending /\ ~notify THEN @ \cup {c} ELSE @,
                !.notified = @ + 1]
    /\ UNCHANGED <<connVars, privCore, subdoc, evVars, mgrVars, bucketReady,
                   yieldSide, frame>>

(* notify_thread: one byte is written to the pipe. *)
notify_thread(t) ==
    /\ t \in thr.notify
    /\ thr' = [thr EXCEPT !.pipe = @ + 1, !.notify = @ \ {t}]
    /\ UNCHANGED <<connVars, privCore, subdoc, evVars, mgrVars, bucketReady,
                   yieldSide, frame>>

(* The worker's event loop finds the pipe readable and calls               *)
(* thread_libevent_process.                                                *)
event_base_loop ==
    /\ thr.step = 0
    /\ thr.pipe > 0
    /\ thr' = [thr EXCEPT !.step = 1]
    /\ UNCHANGED <<connVars, privCore, subdoc, evVars, mgrVars, bucketReady,
                   yieldSide, frame>>

(* drain_notification_channel reads whatever the pipe holds. *)
drain_notification_channel ==
    /\ WorkerAt("drain")
    /\ thr' = [thr EXCEPT !.pipe = 0, !.step = StepDone]
    /\ UNCHANGED <<connVars, privCore, subdoc, evVars, mgrVars, bucketReady,
                   yieldSide, frame>>

(* dispatch_new_connections: one round of its loop, which ends when the    *)
(* queue has nothing to pop.                                               *)
dispatch_new_connections ==
    /\ WorkerAt("dispatch")
    /\ thr' = IF thr.new_conn_queue = <<>>
              THEN [thr EXCEPT !.step = StepDone]
              ELSE [thr EXCEPT !.new_conn_queue = Tail(@),
                               !.conns = @ \cup {Head(thr.new_conn_queue)}]
    /\ UNCHANGED <<connVars, privCore, subdoc, evVars, mgrVars, bucketReady,
                   yieldSide, frame>>

(* Under its lock the worker takes the pending-io list and runs the event  *)
(* loop of every connection on it.                                         *)
run_pending_io ==
    /\ WorkerAt("pending")
    /\ thr' = [thr EXCEPT !.pending_io = <<>>,
                          !.quiet = {},
                          !.ranQuiet = (@ \/ thr.quiet # {}),
                          !.step = StepDone]
    /\ UNCHANGED <<connVars, privCore, subdoc, evVars, mgrVars, bucketReady,
                   yieldSide, frame>>

WorkerThread ==
    \/ event_base_loop
    \/ drain_notification_channel
    \/ dispatch_new_connections
    \/ run_pending_io

NextWake ==
    \/ dispatch_conn_new
    \/ add_conn_to_pending_io_list
    \/ \E t \in Notifiers : notify_thread(t)
    \/ WorkerThread

(* The worker's event loop goes on while its pipe is readable, and a       *)
(* thread that is to write the pipe does so; nothing makes the listening   *)
(* thread or the engine bring more work.                                   *)
SpecWake ==
    /\ Init
    /\ [][NextWake]_vars
    /\ WF_vars(WorkerThread)
    /\ \A t \in Notifiers : WF_vars(notify_thread(t))

(* One step of the state machine, whichever state it is in. *)
StateMachine_execute ==
    \/ conn_new_cmd
    \/ conn_waiting
    \/ conn_read_packet_header
    \/ conn_parse_cmd
    \/ conn_read_packet_body
    \/ conn_validate
    \/ conn_execute
    \/ conn_send_data
    \/ conn_drain_send_buffer
    \/ conn_ship_log
    \/ conn_closing
    \/ conn_pending_close
    \/ conn_immediate_close

(* The worker is woken by the socket or by its notification pipe. *)
WakeUp ==
    \/ read_callback
    \/ write_callback
    \/ event_callback
    \/ thread_libevent_process

(* Requests and their answers: a client, the engine that completes what    *)
(* it made wait, and the worker.                                           *)
Next ==
    \/ ClientSendHeader
    \/ ClientSendBody
    \/ notify_io_complete
    \/ dcp_notify_io_complete
    \/ WakeUp
    \/ StateMachine_execute

Spec == Init /\ [][Next]_vars

(* Closing a connection: the same with a plainer client, the external      *)
(* auth manager and the clock.  The worker finishes the loop it is in and  *)
(* reads its notification pipe, the engine completes what it made wait,    *)
(* and the manager purges the connections it was told to forget; nothing   *)
(* is assumed of the client or of the socket.                              *)
NextClose ==
    \/ ClientSendPlain
    \/ ClientSendBody
    \/ notify_io_complete
    \/ dcp_notify_io_complete
    \/ ExternalAuthManagerThread_add
    \/ purgePendingDeadConnections
    \/ Tick
    \/ WakeUp
    \/ StateMachine_execute

(* What the code schedules itself: the worker goes on with the state       *)
(* machine until a handler returns false; the worker's event loop          *)
(* dispatches the notification pipe once it is readable; an engine thread  *)
(* and the manager thread that wait for the worker's lock get it, the      *)
(* worker giving it up after every callback.  Nothing makes the peer read, *)
(* write or hang up, so the socket's callbacks are not subject to fairness.*)
SpecClose ==
    /\ Init
    /\ [][NextClose]_vars
    /\ WF_vars(StateMachine_execute)
    /\ SF_vars(thread_libevent_process)
    /\ SF_vars(notify_io_complete)
    /\ SF_vars(purgePendingDeadConnections)

SpecStuck == InitStuck /\ [][NextClose]_vars

(* A part of the server that holds a reference to the connection enqueues  *)
(* an event on it the way the external auth manager does: under the lock   *)
(* of the worker, enqueueServerEvent and then signalIfIdle.                *)
provider_enqueueServerEvent ==
    /\ ~running
    /\ state # "destroyed"
    /\ authLog.pushes < MaxPush
    /\ server_events' =
          enqueueServerEvent(server_events,
                             [kind |-> "ActiveExternalUsers", id |-> 0,
                              seq |-> Len(evDone) + Len(server_events) + 1])
    /\ authLog' = [authLog EXCEPT !.pushes = @ + 1]
    /\ Signalled
    /\ UNCHANGED <<privCore, subdoc, sideVars, yieldVars, evDone, evLast, mgr,
                   incomingRequests, incommingResponse, requestMap, state,
                   writeAndGo, running, pipe, sockHalf, rbufHalf, hdr, cookie,
                   readEnabled, engOwed, pending_io, msglist, outbuf,
                   refcount, sendQueueInfo, authState, sentVars, histVars>>

(* A connection that serves its client, is sent events by the server and   *)
(* is closed: the actions of NextClose and the events.                     *)
NextServed ==
    \/ NextClose
    \/ provider_enqueueServerEvent

SpecServed == Init /\ [][NextServed]_vars

(* The same with what the code schedules itself, as for SpecClose. *)
SpecServedFair ==
    /\ Init
    /\ [][NextServed]_vars
    /\ WF_vars(StateMachine_execute)
    /\ SF_vars(thread_libevent_process)
    /\ SF_vars(notify_io_complete)
    /\ SF_vars(purgePendingDeadConnections)

(* Requests that pass validation and requests that do not. *)
NextValidate ==
    \/ ClientSendAny
    \/ ClientSendBody
    \/ notify_io_complete
    \/ WakeUp
    \/ StateMachine_execute

SpecValidate == Init /\ [][NextValidate]_vars

(* A DCP connection whose peer sends the messages of a stream; its state   *)
(* machine rests in ship_log where another connection's would wait.        *)
NextBudget ==
    \/ ClientSendDcp
    \/ ClientSendBody
    \/ notify_io_complete
    \/ dcp_notify_io_complete
    \/ WakeUp
    \/ conn_new_cmd
    \/ conn_parse_cmd
    \/ conn_read_packet_body
    \/ conn_validate
    \/ conn_execute
    \/ conn_send_data
    \/ conn_drain_send_buffer
    \/ conn_ship_log
    \/ conn_closing
    \/ conn_pending_close
    \/ conn_immediate_close

InitDcp == Init /\ features.mode = "dcp"
SpecBudget == InitDcp /\ [][NextBudget]_vars

(* ----- the order of execution and of the responses ----- *)

Ordered(log) == \A i, j \in 1..Len(log) : i < j => log[i] < log[j]

(* C1: on a connection that did not negotiate unordered execution the      *)
(* responses are queued in the order in which the requests were received,  *)
(* whether or not the requests carry the Reorder frame info and whatever   *)
(* the engine made wait in between.                                        *)
C1_ResponsesInRequestOrder ==
    features.mode # "unordered" => Ordered(respLog)

(* Both requests were answered, and one of them had been made to wait and  *)
(* was resumed by a completion.                                            *)
C1_Witness ==
    /\ features.mode = "ordered"
    /\ respLog = <<1, 2>>
    /\ delivered = 1
    /\ doneIds = {1, 2}

(* The commands that start to execute in a step. *)
Starting(i) ==
    /\ pipe[i].id \notin startedIds
    /\ pipe[i].id \in startedIds'

(* C2: with unordered execution a command that may not be reordered is a   *)
(* barrier: it starts only when every command received before it has       *)
(* completed, and while it has not completed (it is still in the read      *)
(* buffer) no command behind it starts.                                    *)
C2_Barrier ==
    [][features.mode = "unordered" =>
         \A i \in 1..Len(pipe) :
            Starting(i) =>
               /\ \A j \in 1..(i - 1) : mayBeReordered(pipe[j])
               /\ ~mayBeReordered(pipe[i]) =>
                     \A k \in 1..(pipe[i].id - 1) : k \in doneIds]_vars

(* A barrier started after the first command completed and now waits for   *)
(* the engine, with a reorderable command behind it that has not started. *)
C2_Witness ==
    /\ features.mode = "unordered"
    /\ Len(pipe) = 2
    /\ ~mayBeReordered(pipe[1])
    /\ pipe[1].id \in startedIds
    /\ cookie.ewouldblock
    /\ mayBeReordered(pipe[2])
    /\ pipe[2].id \notin startedIds

(* C3: every response frame in the message list carries the opaque of the  *)
(* request it answers, also when the command was made to wait and resumed. *)
C3_OpaqueEchoed ==
    \A k \in 1..Len(msglist) :
       msglist[k].id # 0 => msglist[k].opaque = msglist[k].reqOpaque

(* The answer of a command that waited for the engine is in the list, and  *)
(* the request before it had another opaque.                               *)
C3_Witness ==
    /\ Len(msglist) = 1
    /\ msglist[1].id = 2
    /\ msglist[1].opaque = 187
    /\ msglist[1].status = "Success"
    /\ delivered = 1
    /\ lastExec.executed

(* A step of conn_execute that went through execute_request_packet. *)
ExecStep ==
    /\ running
    /\ state = "execute"
    /\ lastExec' # NoExec
    /\ (running' # running \/ state' # state \/ lastExec' # lastExec)

(* C7: a request whose privilege check says Fail is not handed to its      *)
(* executor; with extended error codes it is answered Eaccess, without     *)
(* them the connection goes to closing and nothing is answered.            *)
C7_FailNotExecuted ==
    [][ExecStep /\ lastExec'.priv = "Fail" =>
         /\ ~lastExec'.executed
         /\ startedIds' = startedIds
         /\ engOwed' = engOwed
         /\ IF features.xerror
            THEN /\ state' = "send_data"
                 /\ msglist' = Append(msglist, mcbp_add_header("Eaccess"))
            ELSE /\ state' = "closing"
                 /\ msglist' = msglist]_vars

(* The refusal is on its way to a client that understands it. *)
C7_Witness ==
    /\ lastExec = [priv |-> "Fail", executed |-> FALSE, code |-> "Eaccess"]
    /\ features.xerror
    /\ state = "send_data"
    /\ Len(msglist) = 1
    /\ msglist[1].status = "Eaccess"

(* ----- completions and the end of a connection ----- *)

(* C4: a cookie that is blocked is delivered a completion, unless the      *)
(* connection is destroyed first; it is delivered no more than one; and    *)
(* the step that delivers it clears the blocked flag.                      *)
C4_OneCompletion ==
    /\ cookie.ewouldblock ~> (delivered = 1 \/ state = "destroyed")
    /\ [](delivered <= 1)
    /\ [][delivered' > delivered => ~cookie'.ewouldblock]_vars

(* The completion was delivered and the command is about to be resumed. *)
C4_Witness ==
    /\ delivered = 1
    /\ ~cookie.ewouldblock
    /\ state = "execute"
    /\ running
    /\ cookie.aiostat = "Tmpfail"

(* A step of conn_closing or conn_pending_close, which both call close. *)
CloseStep ==
    /\ running
    /\ state \in {"closing", "pending_close"}
    /\ (running' # running \/ state' # state)

Deferred == state' = "pending_close" /\ ~running'
Finalized == state' = "immediate_close" /\ running'

C6_ClosingEnds == (state = "closing") ~> (state = "destroyed")

(* ----- the privilege checks ----- *)

C9_AsStated == rebuilds <= max_retries

(* C9: no call of checkPrivilege rebuilds the context more than 100 times. *)
C9_RebuildsPerCall == retries <= max_retries

(* The second check of validate_vattr_privilege has used up its rebuilds   *)
(* after the first one had made some: more than 100 for the request.       *)
C9_Witness ==
    /\ ppc = "sysXattrRead"
    /\ retries = max_retries
    /\ rebuilds > max_retries

(* C10: checkPrivilege returns Ok for a context that said Fail exactly     *)
(* when privilege debug is on, and without privilege debug it returns Ok   *)
(* only for a context that said Ok.                                        *)
C10_DebugConversion ==
    /\ lastCall.answer = "Fail" => (lastCall.result = "Ok" <=> privDebug)
    /\ lastCall.result = "Ok" /\ ~privDebug => lastCall.answer = "Ok"

(* Privilege debug let a request through that the context had refused. *)
C10_Witness ==
    /\ privDebug
    /\ lastCall.answer = "Fail"
    /\ lastCall.result = "Ok"
    /\ outcome.handed

(* C11: a connection in the no-bucket has a privilege context that grants  *)
(* every bucket privilege.                                                 *)
C11_NoBucketGrantsAll == bucketIndex = 0 => privilegeContext.all

(* ----- the engine's codes ----- *)

Closing == {"closing", "pending_close", "immediate_close", "destroyed"}
Answered(status) == msglist' = Append(msglist, mcbp_add_header(status))
AuthCodes == {"Eaccess", "AuthStale", "NoBucket"}

(* C12: without extended error codes a command that ends with eaccess,     *)
(* auth-stale or no-bucket is not answered and the connection goes to      *)
(* closing; with them every code is passed on as it is, and a command that *)
(* ends with a code other than would-block and disconnect is answered      *)
(* with that code.                                                         *)
C12_AuthCodesRemapped ==
    /\ [](\A code \in EngineCodes :
            /\ remapErrorCode(TRUE, features.collections, code) = code
            /\ code \in AuthCodes =>
                  remapErrorCode(FALSE, features.collections, code)
                     = "Disconnect")
    /\ [][ExecStep =>
           /\ ~features.xerror /\ lastExec'.code \in AuthCodes =>
                 state' = "closing" /\ msglist' = msglist
           /\ features.xerror
                 /\ lastExec'.code \notin {"Ewouldblock", "Disconnect"} =>
                 Answered(lastExec'.code)]_vars

(* The engine said no-bucket to a client that cannot be told. *)
C12_Witness ==
    /\ ~features.xerror
    /\ lastExec = [priv |-> "Ok", executed |-> TRUE, code |-> "NoBucket"]
    /\ state = "closing"
    /\ msglist = <<>>

CollectionCodes == {"UnknownCollection", "CollectionsManifestIsAhead"}

(* C14 as the specification states it: on a connection without            *)
(* collections the two collection codes reach the client as einval.        *)
C14_AsStated ==
    [][ExecStep /\ ~features.collections
          /\ lastExec'.code \in CollectionCodes => Answered("Einval")]_vars

(* C14: on a connection with neither collections nor extended error codes  *)
(* the two collection codes reach the client as einval; with extended      *)
(* error codes they reach it as they are.                                  *)
C14_CollectionCodes ==
    [][ExecStep /\ ~features.collections
          /\ lastExec'.code \in CollectionCodes =>
             IF features.xerror THEN Answered(lastExec'.code)
             ELSE Answered("Einval")]_vars

(* Unknown-collection was turned into einval. *)
C14_Witness ==
    /\ ~features.xerror
    /\ ~features.collections
    /\ lastExec.code = "UnknownCollection"
    /\ Len(msglist) = 1
    /\ msglist[1].status = "Einval"

(* ----- retries ----- *)

(* C15 as the specification states it: a request stores at most            *)
(* MAXIMUM_ATTEMPTS times, suspensions included.                           *)
C15_AttemptsPerRequest == subdoc.stores <= MAXIMUM_ATTEMPTS

(* ----- server events ----- *)

(* C16: the events of a connection are numbered as they are enqueued.  The *)
(* events waiting are the ones after those consumed, in that order; the    *)
(* event executed is the one at the front; it leaves the queue exactly     *)
(* when execute returned true, and the queue gets shorter in no other way. *)
C16_ServerEventsInOrder ==
    /\ [](/\ evDone = [i \in 1..Len(evDone) |-> i]
          /\ \A i \in 1..Len(server_events) :
                server_events[i].seq = Len(evDone) + i)
    /\ [][/\ (evLast' # evLast \/ evDone' # evDone) =>
                (/\ server_events # <<>>
                 /\ evLast'.seq = server_events[1].seq
                 /\ IF evLast'.ok
                    THEN /\ server_events' = Tail(server_events)
                         /\ evDone' = Append(evDone, server_events[1].seq)
                    ELSE /\ server_events' = server_events
                         /\ evDone' = evDone)
          /\ (Len(server_events') < Len(server_events)) =>
                (evDone' # evDone)]_vars

(* The second event said "later" and is still at the front, before the     *)
(* third.                                                                  *)
C16_Witness ==
    /\ evDone = <<1>>
    /\ evLast = [seq |-> 2, ok |-> FALSE]
    /\ Len(server_events) = 2
    /\ server_events[1].kind = "Other"

(* ----- the external authentication ----- *)

Queued == incommingResponse \o mgr.responses
Answer(task) ==
    {authLog.delivered[i] : i \in {j \in 1..Len(authLog.delivered) :
                                     authLog.delivered[j].task = task}}
ProviderGone == authState \in {"pendingRemove", "purging", "removed"}

C18_RoutedByOpaque ==
    \A i \in 1..Len(authLog.delivered) :
       LET d == authLog.delivered[i]
       IN d.status \in ProviderStatus =>
            [opaque |-> d.opaque, provider |-> TRUE, task |-> d.task]
               \in authLog.issued

(* C19: where the manager is about to take the lock of a worker it does   *)
(* not hold its own mutex, and no event is enqueued and no reference given *)
(* up while the manager holds it.                                          *)
C19_LockOrder ==
    /\ [](mgr.pc \in {"purge_release", "enqueue", "push_enqueue"} =>
            ~mgr.locked)
    /\ [][(Len(server_events') > Len(server_events)
            \/ refcount' < refcount) => ~mgr.locked]_vars

(* The manager has enqueued a request and a list of users, and has given   *)
(* up its reference to the provider.                                       *)
C19_Witness ==
    /\ Len(server_events) = 2
    /\ server_events[1].kind = "Authenticate"
    /\ authState = "removed"
    /\ refcount = 1
    /\ mgr.locked

(* C35: a task of the executor is told the outcome of its authentication  *)
(* at most once, whatever the provider sends and whenever it goes away.    *)
C35_AtMostOneResponse ==
    \A task \in 1..MaxAuth :
       Cardinality({i \in 1..Len(authLog.delivered) :
                      authLog.delivered[i].task = task}) <= 1

(* The provider answered a request and went away before the manager read   *)
(* the answer: the task was told the answer, and the "service down" that   *)
(* the manager queued for the same request is still to be looked at.       *)
C35_Witness ==
    /\ ProviderGone
    /\ \E i \in 1..Len(authLog.delivered), j \in 1..Len(Queued) :
          /\ authLog.delivered[i].status \in ProviderStatus
          /\ Queued[j].opaque = authLog.delivered[i].opaque
          /\ Queued[j].status = ServiceDown

(* The mutex a thread waits for at its position, "none" where it does not *)
(* wait.                                                                   *)
Wants(t) ==
    LET at == frame.pc[t]
    IN CASE t = "auth" /\ at \in {"start", "relock"} -> "manager"
         [] t = "auth" /\ at = "worker" -> "worker"
         [] t = "auth" /\ at = "task" -> "task"
         [] t = "worker" /\ at = "call" -> "manager"
         [] t = "executor" /\ at = "unlocked" -> "manager"
         [] t = "executor" /\ at = "guard" -> "task"
         [] OTHER -> "none"
Deadlocked ==
    \E S \in (SUBSET LockThreads) \ {{}} :
       \A t \in S : Wants(t) # "none" /\ frame.owner[Wants(t)] \in S
Through(R) ==
    R \cup {<<p[1][1], p[2][2]>> : p \in {q \in R \X R : q[1][2] = q[2][1]}}
Cyclic(R) == \E l \in Mutexes : <<l, l>> \in Through(Through(R))

(* C36: the threads of the external authentication never wait for each    *)
(* other in a ring, and the order in which the manager's mutex, the        *)
(* worker's mutex and the task's mutex were taken has no cycle.            *)
C36_NoDeadlock ==
    frame.kind = "locks" => ~Deadlocked /\ ~Cyclic(frame.order)

(* The worker holds its mutex and waits for the manager's, the manager     *)
(* waits for the worker's, and the executor has taken the task's mutex     *)
(* under the manager's before.                                             *)
C36_Witness ==
    /\ frame.kind = "locks"
    /\ frame.pc["worker"] = "call"
    /\ frame.pc["auth"] = "worker"
    /\ frame.order = {<<"worker", "manager">>, <<"manager", "task">>}

(* C31: the worker never runs the execute state with a cookie that is     *)
(* still blocked, the engine is not called for a blocked cookie, and only  *)
(* the delivery of a completion takes a cookie out of its wait.            *)
C31_NotReexecuted ==
    /\ [](running /\ state = "execute" => ~cookie.ewouldblock)
    /\ [][(lastExec' # lastExec \/ engOwed' > engOwed)
            => ~cookie.ewouldblock]_vars
    /\ [][cookie.ewouldblock /\ ~cookie'.ewouldblock
            => delivered' > delivered]_vars

(* The socket woke the connection while its cookie was blocked and the     *)
(* engine had not completed: the worker runs, and not the command.         *)
C31_Witness ==
    /\ running
    /\ cookie.ewouldblock
    /\ engOwed = 1
    /\ pending_io = <<>>
    /\ delivered = 0
    /\ state # "execute"

(* C32: a connection is in immediate_close or destroyed only with a       *)
(* cookie that is not blocked, so the engine owes it no completion.        *)
C32_NeverReleasedBlocked ==
    state \in {"immediate_close", "destroyed"} =>
       ~cookie.ewouldblock /\ engOwed = 0

ClosingStates == {"closing", "pending_close", "immediate_close", "destroyed"}

(* C33: a connection that is closing stays among closing, pending_close,  *)
(* immediate_close and destroyed, and one that is destroyed stays so.      *)
C33_ClosingIrreversible ==
    /\ [][(state \in ClosingStates) => (state' \in ClosingStates)]_vars
    /\ [][state = "destroyed" => (state' = "destroyed")]_vars

(* A completion was delivered to a connection whose close was put off, and *)
(* the connection is still closing.                                        *)
C33_Witness ==
    /\ state = "pending_close"
    /\ delivered = 1
    /\ ~cookie.ewouldblock
    /\ running

Waiting(seq) ==
    \E i \in 1..Len(server_events) : server_events[i].seq = seq
Executed(seq) == \E i \in 1..Len(evDone) : evDone[i] = seq

(* C34: an event that was enqueued on a connection is executed, unless the *)
(* connection is closed.                                                   *)
C34_EventsExecuted ==
    \A seq \in 1..MaxPush :
       Waiting(seq) ~> (Executed(seq) \/ state \in ClosingStates)

(* ----- the threads ----- *)

(* What the model holds of the Connection object, and the steps of the     *)
(* worker that owns it, of a thread of the engine that completes a         *)
(* command, and of the manager of the external authentication.             *)
OfConnection ==
    <<state, writeAndGo, hdr, cookie, readEnabled, rbufHalf, msglist,
      refcount, server_events>>
WorkerStep ==
    WakeUp \/ StateMachine_execute \/ ExternalAuthManagerThread_add
CompletionStep == notify_io_complete \/ dcp_notify_io_complete

Enlisted(c) == \E i \in 1..Len(thr.pending_io) : thr.pending_io[i] = c
Enqueued(c) ==
    \E i \in 1..Len(thr.new_conn_queue) : thr.new_conn_queue[i] = c
C21_NoMissedWakeUp ==
    \A c \in WakeConns :
        /\ Enlisted(c) ~> ~Enlisted(c)
        /\ Enqueued(c) ~> (c \in thr.conns)
(* a connection that was enlisted without a write to the pipe has been run *)
C21_Witness == thr.ranQuiet /\ thr.pending_io = <<>>

(* C22: whenever the state machine is run while the send queue is not      *)
(* empty, has the size it had when it was looked at before, and that size  *)
(* has been the same for more than the grace window, 29 seconds when the   *)
(* bucket is ready and 1 second otherwise, the connection's term flag is   *)
(* set and its state becomes closing.                                      *)
GraceWindow == IF bucketReady THEN StuckLimitReady ELSE StuckLimitOther
RunsStateMachinery == ~running /\ running'
C22_StuckSendQueue ==
    [][(/\ RunsStateMachinery
        /\ outbuf' # 0
        /\ sendQueueInfo.size = outbuf'
        /\ sendQueueInfo.age > GraceWindow)
       => (sendQueueInfo'.term /\ state' = "closing")]_vars
(* the queue of a connection of a bucket that is not ready was the same    *)
(* for less than 29 seconds, and the connection has been terminated        *)
C22_Witness ==
    /\ ~bucketReady
    /\ sendQueueInfo.term
    /\ sendQueueInfo.age <= StuckLimitReady
C22_WitnessReady ==
    /\ bucketReady
    /\ sendQueueInfo.term
    /\ sendQueueInfo.age > StuckLimitReady

(* C23: within one run of the event loop a connection executes at most     *)
(* max_reqs_per_event requests before it gives the worker back, however    *)
(* many requests its peer has sent.                                        *)
C23_BudgetPerEntry == entryReqs <= max_reqs_per_event

(* C24 as stated: of the calls of maybeYield after runEventLoop has set    *)
(* the budget to N, the first N - 1 return false and the N-th returns      *)
(* true.                                                                   *)
C24_AsStated ==
    (yielding.calls \in 1..yielding.budget)
        => (yielding.ret <=> yielding.calls = yielding.budget)
(* C24: maybeYield takes one off the budget with every call; the first N   *)
(* calls after runEventLoop has set the budget to N return false, the      *)
(* call after them returns true, and a call that returns true has had the  *)
(* callbacks of the socket triggered.                                      *)
C24_YieldsBelowZero ==
    /\ numEvents = yielding.budget - yielding.calls
    /\ (yielding.calls > 0)
           => (yielding.ret <=> yielding.calls > yielding.budget)
    /\ yielding.ret => yielding.trigger
C24_Witness ==
    /\ yielding.budget > 1
    /\ yielding.calls = yielding.budget + 1
    /\ yielding.ret

(* C25: when conn_validate answers a request with an error, the            *)
(* connection is to be closed after the answer if and only if the packet   *)
(* is not well formed; after any other failure the connection goes on to   *)
(* the next request, so that the request was not answered before.          *)
ValidationFailed == state = "validate" /\ state' = "send_data"
C25_ClosesOnFramingOnly ==
    [][ValidationFailed =>
         LET req == getPacket(pipe)
         IN /\ (writeAndGo' = "closing" <=> req.kind = "invalid")
            /\ (writeAndGo' # "closing"
                  => \A i \in 1..Len(respLog) : respLog[i] # req.id)]_vars

(* C26: for a valid header isPacketAvailable returns true exactly when the *)
(* whole frame is in the input buffer, and once the header is in the       *)
(* buffer it throws whenever the body the header declares is larger than   *)
(* the largest packet allowed, be the whole frame in the buffer or not.    *)
C26_PacketAvailable ==
    (frame.kind = "input" /\ frame.valid /\ frame.result # "none")
        => /\ (frame.bodylen <= MaxPacketSize)
                 => (frame.result = "true"
                       <=> frame.size >= HeaderSize + frame.bodylen)
           /\ (frame.size >= HeaderSize /\ frame.bodylen > MaxPacketSize)
                 => frame.result = "throw"

(* The producers that carry a document, and the payload of each. *)
CdcProducers == {"mutation", "deletion", "deletion_v2", "expiration"}

PayloadOf(name) ==
    CASE name = "mutation" -> "DcpMutationPayload"
      [] name = "deletion" -> "DcpDeletionV1Payload"
      [] name = "deletion_v2" -> "DcpDeletionV2Payload"
      [] name = "expiration" -> "DcpExpirationPayload"

PayloadLen(name) ==
    CASE name = "mutation" -> sizeof_DcpMutationPayload
      [] name = "deletion" -> sizeof_DcpDeletionV1Payload
      [] name = "deletion_v2" -> sizeof_DcpDeletionV2Payload
      [] name = "expiration" -> sizeof_DcpExpirationPayload

(* The frame a producer has put on the output stream begins with the frame *)
(* info of the stream-id, goes on with the whole payload of the opcode,    *)
(* the key and the value, and is as long as its header says.               *)
StreamIdFrame ==
    LET fx == sizeof_DcpStreamIdFrameInfo
        ext == PayloadLen(frame.producer)
        key == frame.req.keylen
        out == frame.out
    IN /\ frame.hdrSent
       /\ frame.req.magic = "AltClientRequest"
       /\ frame.req.framing_extraslen = fx
       /\ frame.req.extlen = ext
       /\ frame.req.bodylen = Len(out)
       /\ Len(out) >= fx + ext + key
       /\ SubSeq(out, 1, fx) = Field("DcpStreamId", frame.sid, fx)
       /\ SubSeq(out, fx + 1, fx + ext)
              = Field(PayloadOf(frame.producer), 0, ext)
       /\ SubSeq(out, fx + ext + 1, fx + ext + key) = Field("key", 0, key)
       /\ \A i \in (fx + ext + key + 1)..Len(out) :
             /\ out[i].seg \in {"value", "meta"}
             /\ out[i].seg = "value"
                  => \A j \in (fx + ext + key + 1)..i : out[j].seg = "value"

(* C27: every CDC producer called with a stream-id (mutation, deletion,    *)
(* deletion-v2, expiration) emits a frame with the alt-client-request      *)
(* magic whose framing-extras section is the DcpStreamId frame info of     *)
(* that stream-id, followed by the complete extras of the opcode, the key  *)
(* and the value, and whose body length is the number of body bytes        *)
(* emitted.                                                                *)
C27_StreamIdFrame ==
    (/\ frame.kind = "output"
     /\ frame.producer \in CdcProducers
     /\ frame.sid # 0
     /\ frame.ret = "Success")
        => StreamIdFrame

(* C28, as stated: whenever a producer cannot queue the bytes of its frame *)
(* on the output stream it returns Disconnect, the producers of a packet   *)
(* of fixed size included.                                                 *)
C28_AsStated ==
    (frame.kind = "output" /\ frame.producer # "none" /\ frame.failed)
        => frame.ret = "Disconnect"

(* C28, as the code has it: a producer that writes its frame in several    *)
(* pieces returns Disconnect when a piece cannot be queued; a producer     *)
(* that hands one packet to add_packet_to_send_pipe returns E2big, and     *)
(* nothing of its packet is on the output stream.                          *)
C28_DisconnectOrTooBig ==
    (frame.kind = "output" /\ frame.producer # "none" /\ frame.failed)
        => IF frame.producer \in PacketProducers
           THEN frame.ret = "E2big" /\ ~frame.hdrSent /\ frame.out = <<>>
           ELSE frame.ret = "Disconnect"

C28_Witness ==
    /\ frame.kind = "output"
    /\ frame.producer = "noop"
    /\ frame.failed
    /\ frame.ret = "E2big"

(* C29: chainDataToOutputStream takes the buffer from its caller if and    *)
(* only if the output stream has taken the reference, so the item is       *)
(* released exactly once on every path: by the cleanup callback when it    *)
(* was attached, by the caller when the attach failed or was never made.   *)
C29_ReleasedOnce ==
    (frame.kind = "output" /\ frame.producer # "none" /\ frame.hasItem)
        => /\ frame.released <= 1
           /\ (frame.holder = "evbuffer")
                  <=> (frame.attached /\ frame.released = 0)
           /\ frame.holder = "none" => frame.released = 1

C29_Witness ==
    /\ frame.kind = "output"
    /\ frame.producer = "mutation"
    /\ frame.attached
    /\ frame.failed
    /\ frame.holder = "none"
    /\ frame.released = 1

(* C30: decoding a framing-extras section rejects every input in which an *)
(* item's declared payload runs past the end of the section: validation    *)
(* fails with Einval and no byte behind the section is read.               *)
C30_OverrunRejected ==
    (frame.kind = "extras" /\ frame.status # "none")
        => /\ frame.cut > 0 => frame.status = "Einval"
           /\ frame.read <= Len(frame.section)
           /\ frame.cut = 0 =>
                 (frame.status = "Success" /\ frame.decoded = frame.items)

C30_Witness ==
    /\ frame.kind = "extras"
    /\ frame.cut > 0
    /\ Len(frame.items) > 1
    /\ frame.status = "Einval"
    /\ frame.read = Len(frame.section)

(* C37: the watchdog of the send queue never terminates a connection      *)
(* whose send buffer transmitted bytes during the grace window: it fires   *)
(* only if no byte left the buffer for the whole window, not because the   *)
(* buffer had the same size at two observations.                           *)
C37_NoProgressOnly ==
    (frame.kind = "sendq" /\ sendQueueInfo.term) => frame.sent = 0

(* C38: a subdocument mutation of several paths is all or nothing: the    *)
(* document in the engine is written only if the operation of every path   *)
(* succeeded, and if one fails the stored document is as it was.           *)
C38_AllOrNothing ==
    frame.kind = "multi"
        => LET all == 1..Len(frame.ops)
               succeeded == \A i \in all : frame.status[i] = "Success"
           IN /\ frame.engine_doc \in {{}, all}
              /\ (frame.stores > 0 \/ frame.engine_doc # {})
                    => (succeeded /\ \A i \in all : frame.ops[i].ok)
              /\ (frame.pc = "done" /\ ~succeeded)
                    => (/\ frame.engine_doc = {}
                        /\ frame.response = "SubdocMultiPathFailure")

C38_Witness ==
    /\ frame.kind = "multi"
    /\ frame.pc = "done"
    /\ Len(frame.ops) = 3
    /\ frame.ops[1].xattr /\ frame.ops[1].ok
    /\ frame.ops[2].ok
    /\ ~frame.ops[3].ok
    /\ frame.in_doc # {}
    /\ frame.engine_doc = {}
    /\ frame.response = "SubdocMultiPathFailure"

(* C39: after a replica acknowledges seqno m, exactly the tracked          *)
(* SyncWrites with a seqno of at most m are committed and removed, those   *)
(* with a larger seqno stay tracked, be the seqnos contiguous or sparse;   *)
(* an acknowledgement when nothing is tracked is rejected with an error.   *)
C39_AckCommitsUpTo ==
    (frame.kind = "monitor" /\ frame.op = "ack")
        => /\ frame.before = {} <=> frame.error = "No tracked SyncWrite"
           /\ frame.error = "none" =>
                 /\ frame.tracked = {x \in frame.before : x > frame.ack}
                 /\ {x \in frame.before : x <= frame.ack}
                        \subseteq frame.committed
                 /\ frame.committed \cap frame.tracked = {}
           /\ frame.error # "none" =>
                 /\ frame.tracked = frame.before
                 /\ \A x \in frame.before : x > frame.ack
                        \/ frame.before = {}

C39_Witness ==
    /\ frame.kind = "monitor"
    /\ frame.op = "ack"
    /\ frame.error = "none"
    /\ frame.before = {1, 3, 5}
    /\ frame.ack = 4
    /\ frame.tracked = {5}
    /\ frame.committed = {1, 3}

(* C40: after any sequence of addCpuTime samples max_sched_time is the     *)
(* largest sample seen so far and min_sched_time the smallest.             *)
C40_Extremes ==
    (frame.kind = "cpu" /\ frame.samples # <<>>)
        => LET seen == {frame.samples[i] : i \in 1..Len(frame.samples)}
           IN /\ frame.max_sched_time \in seen
              /\ \A x \in seen : x <= frame.max_sched_time
              /\ frame.min_sched_time \in seen
              /\ \A x \in seen : frame.min_sched_time <= x

TypeOK ==
    /\ state \in {"new_cmd", "waiting", "read_packet_header", "parse_cmd",
                  "read_packet_body", "validate", "execute", "send_data",
                  "drain_send_buffer", "ship_log", "closing",
                  "pending_close", "immediate_close", "destroyed"}
    /\ rbufHalf \in 0..(2 * MaxReq)
    /\ engOwed \in 0..1
    /\ outbuf \in 0..1
    /\ Len(msglist) <= 1
    /\ delivered \in 0..1

====
